---- MODULE Spec2Model ----
(***************************************************************************)
(* Model of the object-graph serialization engine of ts-serialize-closures *)
(* (class SerializedGraph with serialize/deserialize, the builtin registry *)
(* and the custom (de)serializer registry).                                *)
(*                                                                         *)
(* A run takes one input value graph (a JavaScript heap and a root),       *)
(* encodes it with SerializedGraph.serialize one `add` call at a time,     *)
(* turns the graph into a document (toJSON, optionally through JSON text), *)
(* decodes it with SerializedGraph.fromJSON(...).root one `get` call at a  *)
(* time, and may then call the functions of the original and of the        *)
(* decoded graph or serialize the decoded value again.                     *)
(***************************************************************************)
EXTENDS Integers, Sequences, FiniteSets, TLC

(***************************************************************************)
(* Bounds of the model.                                                    *)
(***************************************************************************)
MaxRounds == 2          \* round trips deserialize(serialize(.)) per run
MaxIncr == 2            \* calls of increment() per counter object
MaxCalls == 1           \* calls of a decoded function per run

(***************************************************************************)
(* JavaScript values.  A value is a primitive or a reference to a heap     *)
(* cell; every value has the same four fields so that values compare.      *)
(***************************************************************************)
Undef == [ty |-> "undefined", n |-> 0, s |-> "", ref |-> 0]
Null == [ty |-> "null", n |-> 0, s |-> "", ref |-> 0]
Num(n) == [ty |-> "number", n |-> n, s |-> "", ref |-> 0]
NaNValue == [ty |-> "number", n |-> 0, s |-> "NaN", ref |-> 0]
InfinityValue == [ty |-> "number", n |-> 0, s |-> "Infinity", ref |-> 0]
Str(s) == [ty |-> "string", n |-> 0, s |-> s, ref |-> 0]
Bool(b) == [ty |-> "boolean", n |-> IF b THEN 1 ELSE 0, s |-> "", ref |-> 0]
Ref(i) == [ty |-> "ref", n |-> 0, s |-> "", ref |-> i]

IsRef(v) == v.ty = "ref"

\* The === operator: reference identity, and NaN is not equal to itself.
StrictEquals(a, b) == a = b /\ a # NaNValue

\* Truthiness of a value (used by `this.get(value.closure) || {}`).
Truthy(v) ==
  CASE v.ty = "undefined" -> FALSE
    [] v.ty = "null" -> FALSE
    [] v.ty = "boolean" -> v.n = 1
    [] v.ty = "number" -> v.s # "NaN" /\ (v.n # 0 \/ v.s = "Infinity")
    [] v.ty = "string" -> v.s # ""
    [] OTHER -> TRUE

(***************************************************************************)
(* Property descriptors, as Object.getOwnPropertyDescriptor reports them.  *)
(***************************************************************************)
DataProp(k, v, c, w, e) ==
  [key |-> k, isData |-> TRUE, value |-> v, get |-> Undef, set |-> Undef,
   configurable |-> c, writable |-> w, enumerable |-> e]
PlainProp(k, v) == DataProp(k, v, TRUE, TRUE, TRUE)
AccessorProp(k, g, s, c, e) ==
  [key |-> k, isData |-> FALSE, value |-> Undef, get |-> g, set |-> s,
   configurable |-> c, writable |-> FALSE, enumerable |-> e]

(***************************************************************************)
(* Heap cells.  kind is object, array, function, date or regex.            *)
(*   proto      Object.getPrototypeOf(cell) (objects)                      *)
(*   elems      the elements (arrays)                                      *)
(*   props      the own properties in Object.getOwnPropertyNames order;    *)
(*              the marker properties __closure and __impl are the fields  *)
(*              accessor/env/closureRet and impl                           *)
(*   source     Function.prototype.toString() of a function; the text of a *)
(*              date or regex                                              *)
(*              (of the own properties name and length of a function only  *)
(*              the names of accessor functions are kept: the others are   *)
(*              primitive-valued descriptors like any other)               *)
(*   accessor   "none": no __closure; "fresh": __closure builds an object  *)
(*              literal from env on every call (the capture pass's         *)
(*              accessor); "reentrant": as "fresh", after a call of        *)
(*              serialize on the first captured value; "fixed":            *)
(*              __closure returns closureRet (set by                       *)
(*              the decoder)                                               *)
(*   env        the free variables the function body is bound to           *)
(*   impl       __impl of a forwarding thunk                               *)
(***************************************************************************)
Cell(kind, proto, elems, props) ==
  [kind |-> kind, proto |-> proto, elems |-> elems, props |-> props,
   source |-> "", accessor |-> "none", env |-> <<>>,
   closureRet |-> Undef, impl |-> Undef]
ObjectCell(proto, props) == Cell("object", proto, <<>>, props)
ArrayCell(elems) == Cell("array", Null, elems, <<>>)
FunctionCell(source, accessor, env, props) ==
  [kind |-> "function", proto |-> Null, elems |-> <<>>, props |-> props,
   source |-> source, accessor |-> accessor, env |-> env,
   closureRet |-> Undef, impl |-> Undef]
TextCell(kind, text) ==
  [kind |-> kind, proto |-> Null, elems |-> <<>>, props |-> <<>>,
   source |-> text, accessor |-> "none", env |-> <<>>,
   closureRet |-> Undef, impl |-> Undef]
Binding(name, v) == [name |-> name, value |-> v]


(***************************************************************************)
(* Source texts.  TLC has no string operations, so the prefix and suffix   *)
(* tests the code makes on Function.prototype.toString() and the two       *)
(* substring rewrites are tables over the texts the inputs use.            *)
(***************************************************************************)
SrcNative == "function abs() { [native code] }"
SrcClass == "class A { }"
SrcAddA == "x => a + x"
SrcAddUnderA == "x => __a + x"
SrcTo5 == "function (x) { return x < 5 ? f(x + 1) : x; }"
SrcGet == "() => count.value"
SrcIncrement == "() => { count.value++; }"
SrcIdentity == "x => x"
SrcCtor == "function F(x) { this.x = x; }"
SrcGetter == "get hi() { return 1; }"
SrcSetter == "set hi(v) { }"
SrcGetMethod == "get() { return 1; }"
SrcThunk == "function () { return thunkObj.__thunk.__impl.apply(this, arguments); }"

\* "function " + thunk.toString().substring(4)
SrcThunkTail ==
  "function tion () { return thunkObj.__thunk.__impl.apply(this, arguments); }"

\* source.endsWith("{ [native code] }")
EndsWithNativeCode(source) == source = SrcNative
\* source.startsWith("class ")
StartsWithClass(source) == source = SrcClass
\* value.name.startsWith(kind + ' ')
NameStartsWithKind(name, kind) ==
  \/ kind = "get" /\ name = Str("get hi")
  \/ kind = "set" /\ name = Str("set hi")
\* result.source.startsWith(kind + '(')
SourceStartsWithKindParen(source, kind) ==
  kind = "get" /\ source = SrcGetMethod
\* "function " + value.toString().substring(4)
FunctionPlusSubstring4(source) ==
  CASE source = SrcGetter -> "function hi() { return 1; }"
    [] source = SrcSetter -> "function hi(v) { }"
    [] source = SrcThunk -> SrcThunkTail
    [] OTHER -> source
\* "function " + value.toString().substring(3)
FunctionPlusSubstring3(source) ==
  CASE source = SrcGetMethod -> "function () { return 1; }"
    [] OTHER -> source
\* Whether `(function(...) { return (source); })` parses: method and accessor
\* syntax is no expression.
ParsesAsExpression(source) ==
  source \notin {SrcGetter, SrcSetter, SrcGetMethod, SrcNative}
\* Arrow functions have no own prototype property.
IsArrowSource(source) ==
  source \in {SrcAddA, SrcAddUnderA, SrcGet, SrcIncrement, SrcIdentity}

(***************************************************************************)
(* The heap of the inputs.  Cells 1..3 belong to the host (they are in the *)
(* builtin registry); the others are the values of the round-trip tests    *)
(* and two cells (GenId, Gen2Id) whose shape is drawn at Init.             *)
(***************************************************************************)
ObjectPrototypeId == 1
MathId == ObjectPrototypeId + 1
NativeFnId == MathId + 1
SharedId == NativeFnId + 1
AliasObjId == SharedId + 1
AliasArrId == AliasObjId + 1
SelfArrId == AliasArrId + 1
SelfObjId == SelfArrId + 1
CtorId == SelfObjId + 1
CtorProtoId == CtorId + 1
InstanceId == CtorProtoId + 1
AddAId == InstanceId + 1
AddUnderAId == AddAId + 1
To5Id == AddUnderAId + 1
To5ProtoId == To5Id + 1
BoxId == To5ProtoId + 1
GetId == BoxId + 1
IncrementId == GetId + 1
CounterId == IncrementId + 1
TaggedFnId == CounterId + 1
GenId == TaggedFnId + 1
Gen2Id == GenId + 1
GetterId == Gen2Id + 1
SetterId == GetterId + 1
CustomValId == SetterId + 1
DateId == CustomValId + 1
RegexId == DateId + 1
ClassId == RegexId + 1
GetMethodId == ClassId + 1
OtherBuiltinId == GetMethodId + 1
HolderId == OtherBuiltinId + 1
ClassArrId == HolderId + 1
BoundFnId == ClassArrId + 1
BoundEnvId == BoundFnId + 1
LoggingFnId == BoundEnvId + 1
LoggingHolderId == LoggingFnId + 1

ObjectPrototype == Ref(ObjectPrototypeId)

\* The count of the counter object when it is serialized.
InitialCount == 0

InputHeap(genProto, genProp) ==
  << ObjectCell(Null, <<DataProp("hasOwnProperty", Ref(NativeFnId), TRUE, TRUE, FALSE)>>),
     ObjectCell(ObjectPrototype, <<DataProp("abs", Ref(NativeFnId), TRUE, TRUE, FALSE)>>),
     FunctionCell(SrcNative, "none", <<>>, <<>>),
     ObjectCell(ObjectPrototype, <<PlainProp("v", Num(1))>>),
     ObjectCell(ObjectPrototype, <<PlainProp("a", Ref(SharedId)), PlainProp("b", Ref(SharedId))>>),
     ArrayCell(<<Ref(SharedId), Ref(SharedId), NaNValue, Undef>>),
     ArrayCell(<<Ref(SelfArrId), Num(1)>>),
     ObjectCell(ObjectPrototype, <<PlainProp("self", Ref(SelfObjId))>>),
     FunctionCell(SrcCtor, "none", <<>>,
                  <<DataProp("prototype", Ref(CtorProtoId), FALSE, TRUE, FALSE)>>),
     ObjectCell(ObjectPrototype, <<DataProp("constructor", Ref(CtorId), TRUE, TRUE, FALSE)>>),
     ObjectCell(Ref(CtorProtoId), <<PlainProp("x", Num(1))>>),
     FunctionCell(SrcAddA, "fresh", <<Binding("a", Num(10))>>, <<>>),
     FunctionCell(SrcAddUnderA, "fresh", <<Binding("__a", Num(10))>>, <<>>),
     FunctionCell(SrcTo5, "fresh", <<Binding("f", Ref(To5Id))>>,
                  <<DataProp("prototype", Ref(To5ProtoId), FALSE, TRUE, FALSE)>>),
     ObjectCell(ObjectPrototype, <<DataProp("constructor", Ref(To5Id), TRUE, TRUE, FALSE)>>),
     ObjectCell(ObjectPrototype, <<PlainProp("value", Num(InitialCount))>>),
     FunctionCell(SrcGet, "fresh", <<Binding("count", Ref(BoxId))>>, <<>>),
     FunctionCell(SrcIncrement, "fresh", <<Binding("count", Ref(BoxId))>>, <<>>),
     ObjectCell(ObjectPrototype, <<PlainProp("get", Ref(GetId)), PlainProp("increment", Ref(IncrementId))>>),
     FunctionCell(SrcIdentity, "none", <<>>, <<PlainProp("tag", Num(1))>>),
     ObjectCell(genProto, <<genProp>>),
     ObjectCell(ObjectPrototype, <<PlainProp("x", Ref(GenId))>>),
     FunctionCell(SrcGetter, "none", <<>>, <<DataProp("name", Str("get hi"), TRUE, FALSE, FALSE)>>),
     FunctionCell(SrcSetter, "none", <<>>, <<DataProp("name", Str("set hi"), TRUE, FALSE, FALSE)>>),
     ObjectCell(ObjectPrototype, <<PlainProp("value", Str("Oh hi Mark!"))>>),
     TextCell("date", "2016-04-28T22:02:17.000Z"),
     TextCell("regex", "/([^\\s]+)/g"),
     FunctionCell(SrcClass, "none", <<>>, <<>>),
     FunctionCell(SrcGetMethod, "none", <<>>, <<>>),
     ObjectCell(ObjectPrototype, <<PlainProp("other", Num(2))>>),
     ObjectCell(ObjectPrototype, <<PlainProp("m", Ref(MathId)), PlainProp("c", Ref(CustomValId))>>),
     ArrayCell(<<Num(1), Ref(ClassId)>>),
     FunctionCell(SrcNative, "none", <<>>, <<>>),
     FunctionCell(SrcAddA, "fresh", <<Binding("a", Ref(BoundFnId))>>, <<>>),
     FunctionCell(SrcAddA, "reentrant", <<Binding("a", Ref(AliasObjId))>>, <<>>),
     ObjectCell(ObjectPrototype, <<PlainProp("f", Ref(LoggingFnId)),
                                   PlainProp("o", Ref(AliasObjId))>>) >>

\* The number of cells of the input heap.
InputCells == Len(InputHeap(Null, PlainProp("a", Undef)))


(***************************************************************************)
(* Registries.  A builtin record is {name, builtin}; a custom serializer   *)
(* record is {name, value, serializer}, where serializer is the string the *)
(* serializer function returns; a custom deserializer record is            *)
(* {name, deserializer}, where deserializer is the function from the       *)
(* strings it understands to the values it returns for them.               *)
(***************************************************************************)
BuiltinRecord(name, builtin) == [name |-> name, builtin |-> builtin]

defaultBuiltins ==
  << BuiltinRecord("Object.prototype", ObjectPrototype),
     BuiltinRecord("Math", Ref(MathId)),
     BuiltinRecord("Infinity", InfinityValue),
     BuiltinRecord("NaN", NaNValue),
     BuiltinRecord("Math.abs", Ref(NativeFnId)) >>

MarkSerializer ==
  [name |-> "mark-serializer", value |-> Ref(CustomValId), serializer |-> "My-JSON: {}"]
MarkDeserializer ==
  [name |-> "mark-serializer",
   deserializer |-> [str \in {"My-JSON: {}"} |-> Str("Oh hi Mark!")]]

\* customDeserializer(value.value): undefined for a string the function does
\* not understand.
CallDeserializer(deserializer, str) ==
  IF str.ty = "string" /\ str.s \in DOMAIN deserializer THEN deserializer[str.s] ELSE Undef

\* The registries of a run: those serialize is called with and those
\* deserialize is called with.
Registries ==
  { [id |-> "default",
     builtins |-> defaultBuiltins, customSerializers |-> <<MarkSerializer>>,
     decodeBuiltins |-> defaultBuiltins, customDeserializers |-> <<MarkDeserializer>>],
    [id |-> "user",
     builtins |-> defaultBuiltins \o <<BuiltinRecord("myBuiltin", Ref(SharedId))>>,
     customSerializers |-> <<>>,
     decodeBuiltins |-> defaultBuiltins \o <<BuiltinRecord("myBuiltin", Ref(OtherBuiltinId))>>,
     customDeserializers |-> <<>>],
    [id |-> "partial",
     builtins |-> defaultBuiltins, customSerializers |-> <<MarkSerializer>>,
     decodeBuiltins |-> <<BuiltinRecord("Object.prototype", ObjectPrototype)>>,
     customDeserializers |-> <<>>],
    [id |-> "custom",
     builtins |-> defaultBuiltins,
     customSerializers |->
       << [name |-> "tagged", value |-> Ref(MathId), serializer |-> "M"],
          [name |-> "tagged", value |-> Num(10), serializer |-> "ten"],
          [name |-> "shared", value |-> Ref(SharedId), serializer |-> "S"],
          MarkSerializer >>,
     decodeBuiltins |-> defaultBuiltins,
     customDeserializers |->
       << MarkDeserializer,
          [name |-> "tagged",
           deserializer |-> [str \in {"M", "ten"} |->
                               IF str = "M" THEN Str("was Math") ELSE Num(11)]],
          [name |-> "shared",
           deserializer |-> [str \in {"S"} |-> Ref(OtherBuiltinId)]] >>] }

NoName == "(undefined)"

\* getNameOfBuiltin: the name of the first record whose builtin === value.
getNameOfBuiltin(value, builtinList) ==
  LET hits == {i \in 1..Len(builtinList) : StrictEquals(value, builtinList[i].builtin)}
  IN IF hits = {} THEN NoName
     ELSE builtinList[CHOOSE i \in hits : \A j \in hits : i <= j].name

\* A lookup that returns the first record's builtin whatever the name.
getBuiltinByNameFirst(builtinName, builtinList) == builtinList[1].builtin

\* A lookup that returns null, not undefined, for a name that is not there.
getBuiltinByNameOrNull(builtinName, builtinList) ==
  LET hits == {i \in 1..Len(builtinList) : builtinList[i].name = builtinName}
  IN IF hits = {} THEN Null
     ELSE builtinList[CHOOSE i \in hits : \A j \in hits : i <= j].builtin

\* getBuiltinByName: the builtin of the first record with that name, or undefined.
getBuiltinByName(builtinName, builtinList) ==
  LET hits == {i \in 1..Len(builtinList) : builtinList[i].name = builtinName}
  IN IF hits = {} THEN Undef
     ELSE builtinList[CHOOSE i \in hits : \A j \in hits : i <= j].builtin

\* retrieveCustomSerializer: the index of the first record whose value === value, or 0.
retrieveCustomSerializer(value, customList) ==
  LET hits == {i \in 1..Len(customList) : StrictEquals(customList[i].value, value)}
  IN IF hits = {} THEN 0 ELSE CHOOSE i \in hits : \A j \in hits : i <= j

\* A lookup that returns the first record whatever the name.
retrieveCustomDeserializerFirst(name, customList) ==
  IF customList = <<>> THEN 0 ELSE 1

\* retrieveCustomDeserializer: the index of the first record with that name, or 0.
retrieveCustomDeserializer(name, customList) ==
  LET hits == {i \in 1..Len(customList) : customList[i].name = name}
  IN IF hits = {} THEN 0 ELSE CHOOSE i \in hits : \A j \in hits : i <= j

(***************************************************************************)
(* State.                                                                  *)
(***************************************************************************)
VARIABLES
  heap,          \* the JavaScript heap: a sequence of cells, Ref(i) is heap[i]
  input,         \* the value the run first serializes
  root,          \* the value the current serialize call was given
  reg,           \* the registries of the run
  viaJSON,       \* whether documents go through JSON.stringify/JSON.parse
  pc,            \* ready, encoding, encoded, decoding, decoded, threw
  round,         \* the number of the current round trip
  indexMap,      \* SerializedGraph.indexMap of the graph in use
  contentArray,  \* SerializedGraph.contentArray of the graph in use
  rootIndex,     \* SerializedGraph.rootIndex of the graph in use
  stack,         \* the pending add or get calls, innermost last
  results,       \* the value each finished round trip returned
  error,         \* the error thrown, "" if none
  increments,    \* increment() calls made: [original, decoded]
  called,        \* the calls made of the decoded function: sequence of [arg, result]
  nested,        \* the graphs of the serialize calls a re-entrant call suspended,
                 \* innermost last, and the documents the re-entrant calls returned
  scope,         \* VariableVisitor.scope: the chain of numbering scopes, innermost last
  numbering,     \* the id counter of the store and the shared pendingVariables
  finder,        \* the fields of MutableSharedVariableFinder
  chain,         \* the CapturedVariableScope objects of the capture pass
  visited,       \* what the source file visited so far contains
  boxing,        \* the VariableBoxingVisitor at work: what it boxes and what it emitted
  pipeline,      \* the transformers the pipeline ran on a source file, in order
  expanded       \* the work list and the result list of expandBuiltins

graphVars == <<heap, input, root, reg, viaJSON, pc, round, indexMap, contentArray,
               rootIndex, stack, results, error, increments, called, nested>>
passVars == <<scope, numbering, finder, chain, visited>>
toolVars == <<boxing, pipeline, expanded>>
vars == <<graphVars, passVars, toolVars>>

\* No serialize call is suspended and no re-entrant call has returned.
NoNested == [suspended |-> <<>>, documents |-> <<>>]

\* No compiler pass is running.
NoPass ==
  /\ scope = <<>>
  /\ numbering = [counter |-> 0]
  /\ finder = [sharedVars |-> <<>>]
  /\ chain = <<>>
  /\ visited = [nodes |-> 0]

\* Neither the boxing rewriter, nor the pipeline, nor expandBuiltins is running.
NoTools ==
  /\ boxing = <<>>
  /\ pipeline = <<>>
  /\ expanded = <<>>


(***************************************************************************)
(* Reading the heap.                                                       *)
(***************************************************************************)
\* The position of the own property `key` in a cell's props, or 0.
OwnPropertyIndex(cell, key) ==
  LET hits == {i \in 1..Len(cell.props) : cell.props[i].key = key}
  IN IF hits = {} THEN 0 ELSE CHOOSE i \in hits : TRUE

\* value[key] for an own data property (undefined if there is none; a getter
\* would be called: the getters of the inputs are not evaluated).
GetOwn(h, value, key) ==
  IF ~IsRef(value) THEN Undef
  ELSE LET cell == h[value.ref]
           i == OwnPropertyIndex(cell, key)
       IN IF i = 0 \/ ~cell.props[i].isData THEN Undef ELSE cell.props[i].value

(***************************************************************************)
(* Serialized records.  Every record has the same fields; -1 stands for a  *)
(* node index that is absent, hasValue for the presence of `value`.        *)
(* refs holds {key, index} pairs (the keys of an array record are "").     *)
(***************************************************************************)
SerializedRecord(kind) ==
  [kind |-> kind, value |-> Undef, hasValue |-> FALSE, name |-> "", source |-> "",
   closure |-> -1, prototype |-> -1, refs |-> <<>>, descriptions |-> <<>>]

\* contentArray.push(undefined): the slot of an index that is reserved.
Reserved == SerializedRecord("(reserved)")

Slot(what, key, val, flag) == [what |-> what, key |-> key, val |-> val, flag |-> flag]

\* key.length > 2
LongerThanTwo(key) == key \notin {"a", "b", "v", "x", "f", "hi", "_a", "__"}
\* key.substr(0, 2) === '__'
StartsWithTwoUnderscores(key) == key \in {"__", "__hidden", "__a"}
\* serializeProperties: the keys it skips.
IsElided(key) == LongerThanTwo(key) /\ StartsWithTwoUnderscores(key)

\* serializeProperties: 'value' in desc && desc.configurable && desc.writable && desc.enumerable
IsTypicalProperty(desc) ==
  desc.isData /\ desc.configurable /\ desc.writable /\ desc.enumerable

\* serializeProperties: `if (serializedDesc.writable !== undefined)
\*   serializedDesc.writable = desc.writable`, on the description built so far.
WritableOf(serializedDesc, desc) ==
  IF serializedDesc.writable # "absent"
  THEN (IF ~desc.isData THEN "absent" ELSE IF desc.writable THEN "true" ELSE "false")
  ELSE serializedDesc.writable

\* serializeProperties: the description of a fancy property, before the
\* indices of get, set and value are known.
SerializedDescription(desc) ==
  LET serializedDesc ==
        [key |-> desc.key, get |-> -1, set |-> -1, value |-> -1,
         configurable |-> desc.configurable, enumerable |-> desc.enumerable,
         writable |-> "absent"]
  IN [serializedDesc EXCEPT !.writable = WritableOf(serializedDesc, desc)]

\* serializeProperties: the add calls one property makes, in order.
PropertySlots(desc) ==
  IF IsElided(desc.key) THEN <<>>
  ELSE IF IsTypicalProperty(desc) THEN <<Slot("ref", desc.key, desc.value, "")>>
  ELSE (IF Truthy(desc.get) THEN <<Slot("get", desc.key, desc.get, "get")>> ELSE <<>>)
       \o (IF Truthy(desc.set) THEN <<Slot("set", desc.key, desc.set, "set")>> ELSE <<>>)
       \o (IF desc.isData THEN <<Slot("value", desc.key, desc.value, "")>> ELSE <<>>)

RECURSIVE AllPropertySlots(_)
AllPropertySlots(props) ==
  IF props = <<>> THEN <<>>
  ELSE PropertySlots(Head(props)) \o AllPropertySlots(Tail(props))

\* serializeProperties: the descriptions of the fancy properties.
RECURSIVE AllDescriptions(_)
AllDescriptions(props) ==
  IF props = <<>> THEN <<>>
  ELSE LET desc == Head(props)
       IN (IF IsElided(desc.key) \/ IsTypicalProperty(desc) THEN <<>>
           ELSE <<SerializedDescription(desc)>>)
          \o AllDescriptions(Tail(props))

\* serializeFunction: `if (value.__impl) value = value.__impl`.
FunctionSubject(h, value) ==
  IF Truthy(h[value.ref].impl) THEN h[value.ref].impl ELSE value

\* A serializeFunction that refuses native code only.
CannotSerializeNativeOnly(h, value) ==
  EndsWithNativeCode(h[FunctionSubject(h, value).ref].source)

\* serializeFunction: the two errors.
CannotSerialize(h, value) ==
  LET source == h[FunctionSubject(h, value).ref].source
  IN EndsWithNativeCode(source) \/ StartsWithClass(source)

\* serializeAccessorFunction: the source text of the record.
AccessorSource(h, value, kind) ==
  LET source == h[FunctionSubject(h, value).ref].source
      text == h[value.ref].source
      first == IF NameStartsWithKind(GetOwn(h, value, "name"), kind)
               THEN FunctionPlusSubstring4(text) ELSE source
  IN IF SourceStartsWithKindParen(first, kind) THEN FunctionPlusSubstring3(text) ELSE first

\* serialize: which branch encodes the value.
KindOf(h, value, r) ==
  IF retrieveCustomSerializer(value, r.customSerializers) # 0 THEN "custom"
  ELSE IF getNameOfBuiltin(value, r.builtins) # NoName THEN "builtin"
  ELSE IF ~IsRef(value) THEN "primitive"
  ELSE h[value.ref].kind

LeafKinds == {"custom", "builtin", "primitive", "date", "regex"}

\* serialize: the records that need no recursive add.
serializeLeaf(h, value, r) ==
  LET kind == KindOf(h, value, r)
  IN CASE kind = "custom" ->
            LET custom == r.customSerializers[retrieveCustomSerializer(value, r.customSerializers)]
            IN [SerializedRecord("custom") EXCEPT
                  !.name = custom.name, !.value = Str(custom.serializer), !.hasValue = TRUE]
       [] kind = "builtin" ->
            [SerializedRecord("builtin") EXCEPT !.name = getNameOfBuiltin(value, r.builtins)]
       [] kind = "primitive" ->
            [SerializedRecord("primitive") EXCEPT !.value = value, !.hasValue = TRUE]
       [] OTHER ->
            [SerializedRecord(kind) EXCEPT !.value = Str(h[value.ref].source), !.hasValue = TRUE]

\* The object the closure accessor of a function returns, when it builds one.
ClosureLiteral(env) ==
  ObjectCell(ObjectPrototype, [i \in 1..Len(env) |-> PlainProp(env[i].name, env[i].value)])

\* A serializeFunction that encodes null for a function without __closure.
ClosureValueOrNull(h, value, fresh) ==
  LET fn == h[FunctionSubject(h, value).ref]
  IN CASE fn.accessor \in {"fresh", "reentrant"} -> Ref(fresh)
       [] fn.accessor = "fixed" -> fn.closureRet
       [] OTHER -> Null

\* serializeFunction: `closure ? closure() : undefined`, given the heap after the call.
ClosureValue(h, value, fresh) ==
  LET fn == h[FunctionSubject(h, value).ref]
  IN CASE fn.accessor \in {"fresh", "reentrant"} -> Ref(fresh)
       [] fn.accessor = "fixed" -> fn.closureRet
       [] OTHER -> Undef

\* serialize for arrays, functions and objects: the record before its
\* children are added, and the add calls it makes, in order.
serializeStart(h, value, flag, fresh) ==
  LET cell == h[value.ref]
  IN CASE cell.kind = "array" ->
            [rec |-> SerializedRecord("array"),
             todo |-> [i \in 1..Len(cell.elems) |-> Slot("ref", "", cell.elems[i], "")]]
       [] cell.kind = "function" ->
            LET subject == FunctionSubject(h, value)
                fn == h[subject.ref]
            IN [rec |-> [SerializedRecord("function") EXCEPT
                           !.source = IF flag = "" THEN fn.source
                                      ELSE AccessorSource(h, value, flag),
                           !.descriptions = AllDescriptions(fn.props)],
                todo |-> <<Slot("closure", "", ClosureValue(h, value, fresh), ""),
                           Slot("prototype", "", GetOwn(h, subject, "prototype"), "")>>
                         \o AllPropertySlots(fn.props)]
       [] OTHER ->
            [rec |-> [SerializedRecord("object") EXCEPT
                           !.descriptions = AllDescriptions(cell.props)],
             todo |-> <<Slot("prototype", "", cell.proto, "")>>
                      \o AllPropertySlots(cell.props)]

\* A record that drops the index of a getter.
FillSlotButGet(rec, slot, index) ==
  CASE slot.what = "closure" -> [rec EXCEPT !.closure = index]
    [] slot.what = "prototype" -> [rec EXCEPT !.prototype = index]
    [] slot.what = "ref" -> [rec EXCEPT !.refs = Append(@, [key |-> slot.key, index |-> index])]
    [] OTHER ->
         [rec EXCEPT !.descriptions =
            [i \in 1..Len(@) |->
               IF @[i].key # slot.key THEN @[i]
               ELSE CASE slot.what = "get" -> @[i]
                      [] slot.what = "set" -> [@[i] EXCEPT !.set = index]
                      [] OTHER -> [@[i] EXCEPT !.value = index]]]

\* The record with the index an add call returned stored where the slot says.
FillSlot(rec, slot, index) ==
  CASE slot.what = "closure" -> [rec EXCEPT !.closure = index]
    [] slot.what = "prototype" -> [rec EXCEPT !.prototype = index]
    [] slot.what = "ref" -> [rec EXCEPT !.refs = Append(@, [key |-> slot.key, index |-> index])]
    [] OTHER ->
         [rec EXCEPT !.descriptions =
            [i \in 1..Len(@) |->
               IF @[i].key # slot.key THEN @[i]
               ELSE CASE slot.what = "get" -> [@[i] EXCEPT !.get = index]
                      [] slot.what = "set" -> [@[i] EXCEPT !.set = index]
                      [] OTHER -> [@[i] EXCEPT !.value = index]]]

\* An add that never finds the value.
IndexOfValueNone(map, value) == -1

\* add: the index the graph already holds for the value, or -1.
IndexOfValue(map, value) ==
  LET hits == {i \in 1..Len(map) : StrictEquals(map[i].element, value)}
  IN IF hits = {} THEN -1
     ELSE map[CHOOSE i \in hits : \A j \in hits : i <= j].index


(***************************************************************************)
(* Inputs.                                                                 *)
(***************************************************************************)
PrimitiveRoots ==
  {Num(10), Num(0), Str("hi"), Str(""), Null, Undef, Bool(TRUE), Bool(FALSE),
   NaNValue, InfinityValue}

ObjectRoots ==
  {Ref(i) : i \in {MathId, NativeFnId, SharedId, AliasObjId, AliasArrId, SelfArrId,
                   SelfObjId, CtorId, CtorProtoId, InstanceId, AddAId, AddUnderAId,
                   To5Id, CounterId, TaggedFnId, Gen2Id, CustomValId, DateId, RegexId,
                   ClassId, HolderId, ClassArrId, BoundFnId, BoundEnvId, LoggingFnId,
                   LoggingHolderId}}

GenKeys == {"a", "_a", "__", "__hidden"}
GenValues == {Num(1), Ref(GenId), Ref(SharedId), Ref(ClassId)}
GenProtos == {ObjectPrototype, Null, Ref(Gen2Id), Ref(ClassId)}
GenProps ==
  {DataProp(k, v, c, w, e) : k \in GenKeys, v \in GenValues,
                             c \in BOOLEAN, w \in BOOLEAN, e \in BOOLEAN}
  \cup {AccessorProp(k, Ref(g), s, c, e) :
          k \in GenKeys, g \in {GetterId, GetMethodId, ClassId},
          s \in {Undef, Ref(SetterId), Ref(ClassId)},
          c \in BOOLEAN, e \in BOOLEAN}

DefaultRegistries == CHOOSE r \in Registries : r.id = "default"

Inputs ==
  {[root |-> v, genProto |-> ObjectPrototype, genProp |-> PlainProp("a", Num(1)), reg |-> r] :
      v \in PrimitiveRoots \cup ObjectRoots, r \in Registries}
  \cup {[root |-> Ref(GenId), genProto |-> p, genProp |-> d, reg |-> DefaultRegistries] :
      p \in GenProtos, d \in GenProps}

Init ==
  \E inp \in Inputs, json \in BOOLEAN :
    /\ heap = InputHeap(inp.genProto, inp.genProp)
    /\ input = inp.root
    /\ root = inp.root
    /\ reg = inp.reg
    /\ viaJSON = json
    /\ pc = "ready"
    /\ round = 0
    /\ indexMap = <<>>
    /\ contentArray = <<>>
    /\ rootIndex = -1
    /\ stack = <<>>
    /\ results = <<>>
    /\ error = ""
    /\ increments = [before |-> 0, original |-> 0, decoded |-> 0]
    /\ called = <<>>
    /\ nested = NoNested
    /\ NoPass
    /\ NoTools

(***************************************************************************)
(* Encoding: SerializedGraph.serialize and add.  A frame of the stack is a *)
(* call of add that is computing its record: the index it reserved, the    *)
(* record so far and the add calls it still has to make.                   *)
(***************************************************************************)
Top == stack[Len(stack)]

\* new SerializedGraph(): the fields the constructor sets.
NewGraphShared == [indexMap |-> indexMap, rootIndex |-> rootIndex, contentArray |-> contentArray]

NewGraph == [indexMap |-> <<>>, rootIndex |-> -1, contentArray |-> <<>>]

\* serialize: the frame of the call, which waits for graph.add(value).
SerializeFrame(value) ==
  [index |-> -1, rec |-> SerializedRecord("(serialize)"),
   todo |-> <<Slot("root", "", value, "")>>]

\* `index` is returned to the add call (or to serialize) waiting at the top of stk.
ReturnIndex(stk, index) ==
  LET top == stk[Len(stk)]
      slot == Head(top.todo)
  IN IF slot.what = "root"
     THEN /\ stack' = <<>>
          /\ rootIndex' = index
          /\ pc' = IF nested.suspended = <<>> THEN "encoded" ELSE "returning"
     ELSE /\ stack' = [stk EXCEPT ![Len(stk)] =
                         [top EXCEPT !.rec = FillSlot(top.rec, slot, index),
                                     !.todo = Tail(top.todo)]]
          /\ UNCHANGED <<rootIndex, pc>>

\* serialize(value, builtins, customSerializers): a new graph, then
\* graph.rootIndex = graph.add(value).  The value is the input or, in a
\* later round, the value the previous round trip returned or a value a
\* re-entrant call serialized before.
Serialize ==
  /\ pc \in {"ready", "decoded"}
  /\ round < MaxRounds
  /\ round' = round + 1
  /\ \/ root' = IF pc = "ready" THEN input ELSE results[Len(results)]
     \/ /\ pc = "decoded"
        /\ \E d \in DOMAIN nested.documents : root' = nested.documents[d].value
  /\ indexMap' = NewGraph.indexMap
  /\ contentArray' = NewGraph.contentArray
  /\ rootIndex' = NewGraph.rootIndex
  /\ stack' = <<SerializeFrame(root')>>
  /\ pc' = "encoding"
  /\ UNCHANGED <<heap, input, reg, viaJSON, results, error, increments, called>>
  /\ UNCHANGED <<nested, passVars, toolVars>>

\* add(value) for a value the graph holds already.
AddKnown ==
  /\ pc = "encoding"
  /\ Top.todo # <<>>
  /\ LET index == IndexOfValue(indexMap, Head(Top.todo).val)
     IN /\ index # -1
        /\ ReturnIndex(stack, index)
  /\ UNCHANGED <<heap, input, root, reg, viaJSON, round, indexMap, contentArray,
                 results, error, increments, called>>
  /\ UNCHANGED <<nested, passVars, toolVars>>

\* add(value) for a new value whose record needs no further add.
AddLeaf ==
  /\ pc = "encoding"
  /\ Top.todo # <<>>
  /\ LET value == Head(Top.todo).val
         index == Len(contentArray)
     IN /\ IndexOfValue(indexMap, value) = -1
        /\ KindOf(heap, value, reg) \in LeafKinds
        /\ indexMap' = Append(indexMap, [element |-> value, index |-> index])
        /\ contentArray' = Append(contentArray, serializeLeaf(heap, value, reg))
        /\ ReturnIndex(stack, index)
  /\ UNCHANGED <<heap, input, root, reg, viaJSON, round, results, error,
                 increments, called>>
  /\ UNCHANGED <<nested, passVars, toolVars>>

\* add(value) for a new array, function or object: the index is reserved and
\* recorded, then serialize starts on the value (a function's closure
\* accessor is called here).
AddEnter ==
  /\ pc = "encoding"
  /\ Top.todo # <<>>
  /\ LET slot == Head(Top.todo)
         value == slot.val
         index == Len(contentArray)
         fresh == Len(heap) + 1
         accessor == IF heap[value.ref].kind = "function"
                     THEN heap[FunctionSubject(heap, value).ref].accessor ELSE "none"
         added == [indexMap |-> Append(indexMap, [element |-> value, index |-> index]),
                   rootIndex |-> rootIndex,
                   contentArray |-> Append(contentArray, Reserved)]
         pending == Append(stack, [index |-> index]
                                  @@ serializeStart(heap, value, slot.flag, fresh))
         captured1 == heap[FunctionSubject(heap, value).ref].env[1].value
     IN /\ IndexOfValue(indexMap, value) = -1
        /\ KindOf(heap, value, reg) \notin LeafKinds
        /\ ~(heap[value.ref].kind = "function" /\ CannotSerialize(heap, value))
        /\ heap' = IF accessor \in {"fresh", "reentrant"}
                   THEN Append(heap, ClosureLiteral(heap[FunctionSubject(heap, value).ref].env))
                   ELSE heap
        /\ IF accessor = "reentrant"
           THEN \* the accessor calls serialize: the graph of this call waits
                /\ nested' = [nested EXCEPT !.suspended =
                                Append(@, added @@ [stack |-> pending, value |-> captured1])]
                /\ indexMap' = NewGraph.indexMap
                /\ contentArray' = NewGraph.contentArray
                /\ rootIndex' = NewGraph.rootIndex
                /\ stack' = <<SerializeFrame(captured1)>>
           ELSE /\ indexMap' = added.indexMap
                /\ contentArray' = added.contentArray
                /\ stack' = pending
                /\ UNCHANGED <<rootIndex, nested>>
  /\ UNCHANGED <<input, root, reg, viaJSON, pc, round, results, error,
                 increments, called>>
  /\ UNCHANGED <<passVars, toolVars>>

\* The serialize call a closure accessor made returns graph.toJSON() to the
\* accessor, which returns its object: the add call that called the accessor
\* goes on, in its own graph.
SerializeReturn ==
  /\ pc = "returning"
  /\ LET outer == nested.suspended[Len(nested.suspended)]
     IN /\ nested' = [suspended |-> SubSeq(nested.suspended, 1, Len(nested.suspended) - 1),
                      documents |-> Append(nested.documents,
                                           [value |-> outer.value, root |-> rootIndex,
                                            data |-> contentArray])]
        /\ indexMap' = outer.indexMap
        /\ contentArray' = outer.contentArray
        /\ rootIndex' = outer.rootIndex
        /\ stack' = outer.stack
  /\ pc' = "encoding"
  /\ UNCHANGED <<heap, input, root, reg, viaJSON, round, results, error,
                 increments, called>>
  /\ UNCHANGED <<passVars, toolVars>>

\* add(value) for a new function whose source is native code or a class:
\* serializeFunction throws after add has reserved the index.
AddThrow ==
  /\ pc = "encoding"
  /\ Top.todo # <<>>
  /\ LET value == Head(Top.todo).val
         index == Len(contentArray)
     IN /\ IndexOfValue(indexMap, value) = -1
        /\ KindOf(heap, value, reg) = "function"
        /\ CannotSerialize(heap, value)
        /\ indexMap' = Append(indexMap, [element |-> value, index |-> index])
        /\ contentArray' = Append(contentArray, Reserved)
  /\ pc' = "threw"
  /\ error' = "Cannot serialize"
  /\ UNCHANGED <<heap, input, root, reg, viaJSON, round, rootIndex, stack, results,
                 increments, called>>
  /\ UNCHANGED <<nested, passVars, toolVars>>

\* The innermost add has made all its calls: it stores the record at its
\* index and returns the index.
AddReturn ==
  /\ pc = "encoding"
  /\ Top.todo = <<>>
  /\ contentArray' = [contentArray EXCEPT ![Top.index + 1] = Top.rec]
  /\ ReturnIndex(SubSeq(stack, 1, Len(stack) - 1), Top.index)
  /\ UNCHANGED <<heap, input, root, reg, viaJSON, round, indexMap, results, error,
                 increments, called>>
  /\ UNCHANGED <<nested, passVars, toolVars>>


(***************************************************************************)
(* The document.  toJSON returns {root, data}; JSON.stringify drops the    *)
(* fields whose value is undefined and writes NaN and Infinity as null.    *)
(***************************************************************************)
JSONValue(v) ==
  IF v.ty = "number" /\ v.s \in {"NaN", "Infinity"} THEN Null ELSE v

JSONRecord(rec) ==
  IF rec.hasValue /\ rec.value = Undef THEN [rec EXCEPT !.hasValue = FALSE]
  ELSE [rec EXCEPT !.value = JSONValue(@)]

\* JSON.parse(JSON.stringify(document)).data
JSONRoundTrip(data) == [i \in 1..Len(data) |-> JSONRecord(data[i])]

(***************************************************************************)
(* Writing the heap: the JavaScript operations the decoder uses.           *)
(***************************************************************************)
\* The nearest property `key` of a value on its prototype chain:
\* [found, own, desc].
RECURSIVE FindProperty(_, _, _, _)
FindProperty(h, value, key, own) ==
  IF ~IsRef(value) THEN [found |-> FALSE, own |-> FALSE, desc |-> PlainProp(key, Undef)]
  ELSE LET cell == h[value.ref]
           i == OwnPropertyIndex(cell, key)
       IN IF i # 0 THEN [found |-> TRUE, own |-> own, desc |-> cell.props[i]]
          ELSE FindProperty(h, cell.proto, key, FALSE)

IsCallable(h, v) == IsRef(v) /\ h[v.ref].kind = "function"

SetOwn(h, id, desc) ==
  LET i == OwnPropertyIndex(h[id], desc.key)
  IN IF i = 0 THEN [h EXCEPT ![id].props = Append(@, desc)]
     ELSE [h EXCEPT ![id].props[i] = desc]

\* target[key] = v in strict mode: [ok, heap].  A setter that is found is
\* called; the setters of the inputs change nothing.
Assign(h, target, key, v) ==
  LET p == FindProperty(h, target, key, TRUE)
  IN IF ~p.found THEN [ok |-> TRUE, heap |-> SetOwn(h, target.ref, PlainProp(key, v))]
     ELSE IF p.desc.isData
     THEN IF ~p.desc.writable THEN [ok |-> FALSE, heap |-> h]
          ELSE IF p.own
          THEN [ok |-> TRUE, heap |-> SetOwn(h, target.ref, [p.desc EXCEPT !.value = v])]
          ELSE [ok |-> TRUE, heap |-> SetOwn(h, target.ref, PlainProp(key, v))]
     ELSE [ok |-> IsCallable(h, p.desc.set), heap |-> h]

\* A field of a property descriptor object that is not there.
Absent == [ty |-> "absent", n |-> 0, s |-> "", ref |-> 0]

\* Object.defineProperty(target, key, d): [ok, heap].  d has the fields get,
\* set, value (a value or Absent), configurable, enumerable (booleans) and
\* writable ("absent", "true" or "false").
DefineOwnProperty(h, target, key, d) ==
  LET cell == h[target.ref]
      i == OwnPropertyIndex(cell, key)
      isAccessor == d.get # Absent \/ d.set # Absent
      isDataDesc == d.value # Absent \/ d.writable # "absent"
      badFunction(f) == f # Absent /\ f # Undef /\ ~IsCallable(h, f)
      orUndef(f) == IF f = Absent THEN Undef ELSE f
      created ==
        IF isAccessor
        THEN AccessorProp(key, orUndef(d.get), orUndef(d.set), d.configurable, d.enumerable)
        ELSE DataProp(key, orUndef(d.value), d.configurable, d.writable = "true", d.enumerable)
      cur == cell.props[i]
      merged ==
        IF isAccessor
        THEN AccessorProp(key,
                          IF d.get # Absent THEN d.get ELSE IF cur.isData THEN Undef ELSE cur.get,
                          IF d.set # Absent THEN d.set ELSE IF cur.isData THEN Undef ELSE cur.set,
                          d.configurable, d.enumerable)
        ELSE IF isDataDesc /\ ~cur.isData
        THEN DataProp(key, orUndef(d.value), d.configurable, d.writable = "true", d.enumerable)
        ELSE IF cur.isData
        THEN DataProp(key, IF d.value # Absent THEN d.value ELSE cur.value, d.configurable,
                      IF d.writable # "absent" THEN d.writable = "true" ELSE cur.writable,
                      d.enumerable)
        ELSE [cur EXCEPT !.configurable = d.configurable, !.enumerable = d.enumerable]
      frozen ==
        /\ ~cur.configurable
        /\ \/ d.configurable
           \/ d.enumerable # cur.enumerable
           \/ isAccessor /\ cur.isData
           \/ isDataDesc /\ ~cur.isData
           \/ cur.isData /\ ~cur.writable /\ d.writable = "true"
           \/ cur.isData /\ ~cur.writable /\ d.value # Absent /\ d.value # cur.value
           \/ ~cur.isData /\ d.get # Absent /\ d.get # cur.get
           \/ ~cur.isData /\ d.set # Absent /\ d.set # cur.set
  IN IF badFunction(d.get) \/ badFunction(d.set) \/ (isAccessor /\ isDataDesc)
     THEN [ok |-> FALSE, heap |-> h]
     ELSE IF i = 0 THEN [ok |-> TRUE, heap |-> SetOwn(h, target.ref, created)]
     ELSE IF frozen THEN [ok |-> FALSE, heap |-> h]
     ELSE [ok |-> TRUE, heap |-> SetOwn(h, target.ref, merged)]

\* for (let key in object): the enumerable properties, own first, then those
\* of the prototype chain that are not shadowed.
RECURSIVE EnumerableBindings(_, _, _)
EnumerableBindings(h, value, seen) ==
  IF ~IsRef(value) THEN <<>>
  ELSE LET cell == h[value.ref]
           own == SelectSeq(cell.props, LAMBDA d : d.key \notin seen)
           keys == {cell.props[i].key : i \in 1..Len(cell.props)}
       IN SelectSeq(own, LAMBDA d : d.enumerable)
          \o EnumerableBindings(h, cell.proto, seen \cup keys)


(***************************************************************************)
(* Decoding: SerializedGraph.fromJSON, get and deserializeProperties.      *)
(* A frame of the stack is a call of get that is materialising a record:   *)
(* the node index, the value under construction (obj: the array, the       *)
(* object or the thunk), the implementation of a function (impl), its      *)
(* decoded closure (aux), the descriptor being parsed and the steps left.  *)
(* A step is a call get(index) whose result is used as `what` says, or the *)
(* Object.defineProperty call that ends a description.                     *)
(***************************************************************************)
Step(what, key, index) == [what |-> what, key |-> key, index |-> index]

NoParsed == [get |-> Absent, set |-> Absent, value |-> Absent]

\* deserializeProperties: `if (desc.get)`, for a field that holds a node
\* index or is absent.
IsTruthyIndex(index) == index # -1 /\ index # 0

\* deserializeProperties: the steps of one description.
DescriptionSteps(desc) ==
  (IF IsTruthyIndex(desc.get) THEN <<Step("get", desc.key, desc.get)>> ELSE <<>>)
  \o (IF IsTruthyIndex(desc.set) THEN <<Step("set", desc.key, desc.set)>> ELSE <<>>)
  \o (IF IsTruthyIndex(desc.value) THEN <<Step("value", desc.key, desc.value)>> ELSE <<>>)
  \o <<Step("define", desc.key, -1)>>

RECURSIVE AllDescriptionSteps(_)
AllDescriptionSteps(descs) ==
  IF descs = <<>> THEN <<>>
  ELSE DescriptionSteps(Head(descs)) \o AllDescriptionSteps(Tail(descs))

\* deserializeProperties: the steps of a record.
PropertySteps(rec) ==
  [i \in 1..Len(rec.refs) |-> Step("ref", rec.refs[i].key, rec.refs[i].index)]
  \o AllDescriptionSteps(rec.descriptions)

\* deserializeProperties: parsedDesc = {...desc} with the fields that were
\* decoded replaced; a field holding index 0 keeps the number 0.
ParsedField(index, decoded) ==
  IF index = -1 THEN Absent ELSE IF IsTruthyIndex(index) THEN decoded ELSE Num(index)

ParsedDescription(desc, parsed) ==
  [get |-> ParsedField(desc.get, parsed.get),
   set |-> ParsedField(desc.set, parsed.set),
   value |-> ParsedField(desc.value, parsed.value),
   configurable |-> desc.configurable, enumerable |-> desc.enumerable,
   writable |-> desc.writable]

DescriptionOf(rec, key) ==
  rec.descriptions[CHOOSE i \in 1..Len(rec.descriptions) : rec.descriptions[i].key = key]

\* get: the element the index map holds for the index (the first one), or Absent.
ElementAtIndex(map, valueIndex) ==
  LET hits == {i \in 1..Len(map) : map[i].index = valueIndex}
  IN IF hits = {} THEN Absent
     ELSE map[CHOOSE i \in hits : \A j \in hits : i <= j].element

KnownKinds == {"primitive", "array", "object", "proxy", "function", "builtin",
               "custom", "date", "regex"}
ContainerKinds == {"array", "object", "function"}

\* A primitive branch that returns `value.value || undefined`.
PrimitiveValueOrUndefined(rec) ==
  IF rec.hasValue /\ Truthy(rec.value) THEN rec.value ELSE Undef

\* get, primitive and proxy records: `return value.value`.
PrimitiveValue(rec) == IF rec.hasValue THEN rec.value ELSE Undef

\* get for the records that need no recursive get: [ok, value, cells], where
\* cells are the heap cells the branch creates, value the element it records.
getLeaf(h, rec, r) ==
  CASE rec.kind = "primitive" ->
         [ok |-> TRUE, value |-> PrimitiveValue(rec), cells |-> <<>>]
    [] rec.kind = "proxy" ->
         [ok |-> TRUE, value |-> PrimitiveValue(rec), cells |-> <<>>]
    [] rec.kind = "builtin" ->
         LET builtin == getBuiltinByName(rec.name, r.decodeBuiltins)
         IN [ok |-> builtin # Undef, value |-> builtin, cells |-> <<>>]
    [] rec.kind = "custom" ->
         LET i == retrieveCustomDeserializer(rec.name, r.customDeserializers)
         IN [ok |-> i # 0,
             value |-> IF i = 0 THEN Undef
                       ELSE CallDeserializer(r.customDeserializers[i].deserializer, rec.value),
             cells |-> <<>>]
    [] rec.kind \in {"date", "regex"} ->
         [ok |-> TRUE, value |-> Ref(Len(h) + 1), cells |-> <<TextCell(rec.kind, rec.value.s)>>]
    [] OTHER -> [ok |-> FALSE, value |-> Undef, cells |-> <<>>]

\* The thunk `function () { return thunkObj.__thunk.__impl.apply(this, arguments); }`.
\* (Its default prototype object is replaced before anything reads it and is
\* not allocated.)
ThunkCell ==
  FunctionCell(SrcThunk, "none", <<>>, <<DataProp("prototype", Undef, FALSE, TRUE, FALSE)>>)

\* The function the evaluated wrapper returns: the source text with the
\* captured names bound to the captured values.
ImplCell(source, bindings) ==
  FunctionCell(source, "none",
               [i \in 1..Len(bindings) |->
                  Binding(bindings[i].key, IF bindings[i].isData THEN bindings[i].value ELSE Undef)],
               IF IsArrowSource(source) THEN <<>>
               ELSE <<DataProp("prototype", Undef, FALSE, TRUE, FALSE)>>)

\* getStart with the push of the thunk on the index map left out.
getStartUnmemoized(h, rec, valueIndex) ==
  LET fresh == Ref(Len(h) + 1)
      frame == [index |-> valueIndex, kind |-> rec.kind, obj |-> Undef, impl |-> Undef,
                aux |-> Undef, parsed |-> NoParsed, todo |-> <<>>]
  IN CASE rec.kind = "array" ->
            [heap |-> Append(h, ArrayCell(<<>>)), memo |-> <<fresh>>,
             frame |-> [frame EXCEPT !.obj = fresh,
                          !.todo = [i \in 1..Len(rec.refs) |-> Step("push", "", rec.refs[i].index)]]]
       [] rec.kind = "object" ->
            [heap |-> h, memo |-> <<>>,
             frame |-> [frame EXCEPT
                          !.todo = <<Step("create", "", rec.prototype)>> \o PropertySteps(rec)]]
       [] OTHER ->
            [heap |-> Append(h, ThunkCell), memo |-> <<>>,
             frame |-> [frame EXCEPT !.obj = fresh,
                          !.todo = <<Step("closure", "", rec.closure),
                                     Step("prototype", "", rec.prototype)>>
                                   \o PropertySteps(rec)]]

\* get for arrays, objects and functions: the frame of the call and the heap
\* after the part of the branch that precedes its first recursive get.
getStart(h, rec, valueIndex) ==
  LET fresh == Ref(Len(h) + 1)
      frame == [index |-> valueIndex, kind |-> rec.kind, obj |-> Undef, impl |-> Undef,
                aux |-> Undef, parsed |-> NoParsed, todo |-> <<>>]
  IN CASE rec.kind = "array" ->
            [heap |-> Append(h, ArrayCell(<<>>)), memo |-> <<fresh>>,
             frame |-> [frame EXCEPT !.obj = fresh,
                          !.todo = [i \in 1..Len(rec.refs) |-> Step("push", "", rec.refs[i].index)]]]
       [] rec.kind = "object" ->
            [heap |-> h, memo |-> <<>>,
             frame |-> [frame EXCEPT
                          !.todo = <<Step("create", "", rec.prototype)>> \o PropertySteps(rec)]]
       [] OTHER ->
            [heap |-> Append(h, ThunkCell), memo |-> <<fresh>>,
             frame |-> [frame EXCEPT !.obj = fresh,
                          !.todo = <<Step("closure", "", rec.closure),
                                     Step("prototype", "", rec.prototype)>>
                                   \o PropertySteps(rec)]]

\* What the call at the top does with the value `v` its pending get(index)
\* returned: [ok, err, heap, frame, memo], memo being the elements it pushes on
\* the index map under the frame's index.
UseValue(h, frame, rec, v) ==
  LET step == Head(frame.todo)
      rest == [frame EXCEPT !.todo = Tail(@)]
      done == [ok |-> TRUE, err |-> "", heap |-> h, frame |-> rest, memo |-> <<>>]
      failed == [done EXCEPT !.ok = FALSE, !.err = "TypeError"]
      fresh == Ref(Len(h) + 1)
  IN CASE step.what = "push" ->
            [done EXCEPT !.heap = [h EXCEPT ![frame.obj.ref].elems = Append(@, v)]]
       [] step.what = "create" ->
            \* Object.create(proto) and the push on the index map
            IF ~(v = Null \/ IsRef(v)) THEN failed
            ELSE [done EXCEPT !.heap = Append(h, ObjectCell(v, <<>>)),
                              !.frame = [rest EXCEPT !.obj = fresh],
                              !.memo = <<fresh>>]
       [] step.what = "ref" ->
            LET a == Assign(h, frame.obj, step.key, v)
            IN IF a.ok THEN [done EXCEPT !.heap = a.heap] ELSE failed
       [] step.what = "get" -> [done EXCEPT !.frame = [rest EXCEPT !.parsed.get = v]]
       [] step.what = "set" -> [done EXCEPT !.frame = [rest EXCEPT !.parsed.set = v]]
       [] step.what = "value" -> [done EXCEPT !.frame = [rest EXCEPT !.parsed.value = v]]
       [] step.what = "closure" ->
            \* deserializedClosure = get(closure) || {}, then the wrapper is
            \* evaluated and applied to the captured values
            LET withClosure == IF Truthy(v) THEN h ELSE Append(h, ObjectCell(ObjectPrototype, <<>>))
                deserializedClosure == IF Truthy(v) THEN v ELSE fresh
                bindings == EnumerableBindings(withClosure, deserializedClosure, {})
            IN IF ~ParsesAsExpression(rec.source)
               THEN [failed EXCEPT !.err = "Failed to deserialize code"]
               ELSE [done EXCEPT
                       !.heap = Append(withClosure, ImplCell(rec.source, bindings)),
                       !.frame = [rest EXCEPT !.impl = Ref(Len(withClosure) + 1),
                                              !.aux = deserializedClosure]]
       [] OTHER ->
            \* impl.prototype = get(prototype); impl.__closure = ...;
            \* thunk.__impl = impl; thunk.prototype = impl.prototype
            LET a == Assign(h, frame.impl, "prototype", v)
                h2 == [a.heap EXCEPT ![frame.impl.ref].accessor = "fixed",
                                     ![frame.impl.ref].closureRet = frame.aux,
                                     ![frame.obj.ref].impl = frame.impl]
                b == Assign(h2, frame.obj, "prototype", GetOwn(h2, frame.impl, "prototype"))
            IN [done EXCEPT !.heap = b.heap]


\* The value `v` is returned to the get call (or to the root accessor)
\* waiting at the top of stk, which goes on with it.
ReturnValue(stk, h, map, v) ==
  LET top == stk[Len(stk)]
      u == UseValue(h, top, contentArray[top.index + 1], v)
  IN IF Head(top.todo).what = "root"
     THEN /\ results' = Append(results, v)
          /\ pc' = "decoded"
          /\ stack' = <<>>
          /\ heap' = h
          /\ indexMap' = map
          /\ error' = error
     ELSE IF u.ok
     THEN /\ heap' = u.heap
          /\ indexMap' = map \o [i \in 1..Len(u.memo) |->
                                   [element |-> u.memo[i], index |-> top.index]]
          /\ stack' = [stk EXCEPT ![Len(stk)] = u.frame]
          /\ UNCHANGED <<results, pc, error>>
     ELSE /\ pc' = "threw"
          /\ error' = u.err
          /\ heap' = h
          /\ indexMap' = map
          /\ stack' = stk
          /\ UNCHANGED results

\* toJSON(): the document serialize returns.
toJSON == [root |-> rootIndex, data |-> contentArray]

\* The documents deserialize is given: the one serialize returned, or that
\* document with the kind of one record replaced by a tag get does not know.
UnknownKind == "bogus"

Documents(data) ==
  {data} \cup {[data EXCEPT ![i].kind = UnknownKind] : i \in 1..Len(data)}

\* deserialize(document, builtins, customDeserializers): fromJSON makes a
\* new graph over the document's data, and .root calls get(rootIndex).
Deserialize ==
  /\ pc = "encoded"
  /\ \E document \in Documents(toJSON.data) :
       contentArray' = IF viaJSON THEN JSONRoundTrip(document) ELSE document
  /\ indexMap' = <<>>
  /\ stack' = <<[index |-> -1, kind |-> "(root)", obj |-> Undef, impl |-> Undef,
                 aux |-> Undef, parsed |-> NoParsed,
                 todo |-> <<Step("root", "", rootIndex)>>]>>
  /\ pc' = "decoding"
  /\ UNCHANGED <<heap, input, root, reg, viaJSON, round, rootIndex, results, error,
                 increments, called>>
  /\ UNCHANGED <<nested, passVars, toolVars>>

InRange(valueIndex) == valueIndex \in 0..(Len(contentArray) - 1)

\* get(valueIndex) for an index the index map holds already.
GetKnown ==
  /\ pc = "decoding"
  /\ Top.todo # <<>>
  /\ Head(Top.todo).what # "define"
  /\ LET element == ElementAtIndex(indexMap, Head(Top.todo).index)
     IN /\ element # Absent
        /\ ReturnValue(stack, heap, indexMap, element)
  /\ UNCHANGED <<input, root, reg, viaJSON, round, contentArray, rootIndex,
                 increments, called>>
  /\ UNCHANGED <<nested, passVars, toolVars>>

\* get(valueIndex) for a primitive, proxy, builtin, custom, date or regex record.
GetLeaf ==
  /\ pc = "decoding"
  /\ Top.todo # <<>>
  /\ Head(Top.todo).what # "define"
  /\ LET valueIndex == Head(Top.todo).index
         value == contentArray[valueIndex + 1]
         leaf == getLeaf(heap, value, reg)
     IN /\ ElementAtIndex(indexMap, valueIndex) = Absent
        /\ InRange(valueIndex)
        /\ value.kind \notin ContainerKinds
        /\ leaf.ok
        /\ ReturnValue(stack, heap \o leaf.cells,
                       Append(indexMap, [element |-> leaf.value, index |-> valueIndex]),
                       leaf.value)
  /\ UNCHANGED <<input, root, reg, viaJSON, round, contentArray, rootIndex,
                 increments, called>>
  /\ UNCHANGED <<nested, passVars, toolVars>>

\* get(valueIndex) throws: unknown builtin, unknown custom, unrecognized
\* content kind (or no record at the index).
GetThrow ==
  /\ pc = "decoding"
  /\ Top.todo # <<>>
  /\ Head(Top.todo).what # "define"
  /\ LET valueIndex == Head(Top.todo).index
         value == contentArray[valueIndex + 1]
     IN /\ ElementAtIndex(indexMap, valueIndex) = Absent
        /\ IF ~InRange(valueIndex) THEN error' = "TypeError"
           ELSE /\ value.kind \notin ContainerKinds
                /\ ~getLeaf(heap, value, reg).ok
                /\ error' = CASE value.kind = "builtin" -> "Cannot deserialize unknown builtin"
                              [] value.kind = "custom" -> "Cannot deserialize unknown custom"
                              [] OTHER -> "Cannot deserialize unrecognized content kind"
  /\ pc' = "threw"
  /\ UNCHANGED <<heap, input, root, reg, viaJSON, round, indexMap, contentArray,
                 rootIndex, stack, results, increments, called>>
  /\ UNCHANGED <<nested, passVars, toolVars>>

\* get(valueIndex) for an array, object or function record: an array and a
\* function's thunk are pushed on the index map before the recursive calls,
\* an object once get(prototype) has returned.
GetEnter ==
  /\ pc = "decoding"
  /\ Top.todo # <<>>
  /\ Head(Top.todo).what # "define"
  /\ LET valueIndex == Head(Top.todo).index
         value == contentArray[valueIndex + 1]
         start == getStart(heap, value, valueIndex)
     IN /\ ElementAtIndex(indexMap, valueIndex) = Absent
        /\ InRange(valueIndex)
        /\ value.kind \in ContainerKinds
        /\ heap' = start.heap
        /\ indexMap' = indexMap \o [i \in 1..Len(start.memo) |->
                                      [element |-> start.memo[i], index |-> valueIndex]]
        /\ stack' = Append(stack, start.frame)
  /\ UNCHANGED <<input, root, reg, viaJSON, pc, round, contentArray, rootIndex,
                 results, error, increments, called>>
  /\ UNCHANGED <<nested, passVars, toolVars>>

\* The innermost get has finished its record and returns the value.
GetReturn ==
  /\ pc = "decoding"
  /\ Top.todo = <<>>
  /\ ReturnValue(SubSeq(stack, 1, Len(stack) - 1), heap, indexMap, Top.obj)
  /\ UNCHANGED <<input, root, reg, viaJSON, round, contentArray, rootIndex,
                 increments, called>>
  /\ UNCHANGED <<nested, passVars, toolVars>>

\* deserializeProperties: Object.defineProperty(deserializedValue, key, parsedDesc).
DefineProperty ==
  /\ pc = "decoding"
  /\ Top.todo # <<>>
  /\ Head(Top.todo).what = "define"
  /\ LET key == Head(Top.todo).key
         desc == DescriptionOf(contentArray[Top.index + 1], key)
         d == DefineOwnProperty(heap, Top.obj, key, ParsedDescription(desc, Top.parsed))
     IN IF d.ok
        THEN /\ heap' = d.heap
             /\ stack' = [stack EXCEPT ![Len(stack)] =
                            [Top EXCEPT !.todo = Tail(@), !.parsed = NoParsed]]
             /\ UNCHANGED <<pc, error>>
        ELSE /\ pc' = "threw"
             /\ error' = "TypeError"
             /\ UNCHANGED <<heap, stack>>
  /\ UNCHANGED <<input, root, reg, viaJSON, round, indexMap, contentArray, rootIndex,
                 results, increments, called>>
  /\ UNCHANGED <<nested, passVars, toolVars>>

(***************************************************************************)
(* Calling functions.  The functions of the inputs are those of the tests; *)
(* a decoded function is the thunk, which applies its implementation, and  *)
(* the implementation sees the captured names as the parameters the        *)
(* evaluated wrapper was applied to.                                       *)
(***************************************************************************)
Unbound == [ty |-> "unbound", n |-> 0, s |-> "", ref |-> 0]

\* thunk.__impl for a thunk, the function itself otherwise.
Implementation(h, fn) == IF h[fn.ref].impl # Undef THEN h[fn.ref].impl ELSE fn

\* The value a free name of a function's body resolves to.
FreeName(h, fn, name) ==
  LET env == h[fn.ref].env
      hits == {i \in 1..Len(env) : env[i].name = name}
  IN IF hits = {} THEN Unbound ELSE env[CHOOSE i \in hits : \A j \in hits : i <= j].value

Returned(v) == [ok |-> TRUE, value |-> v]
Threw(name) == [ok |-> FALSE, value |-> Str(name)]

Plus(a, b) ==
  IF a.ty = "number" /\ a.s = "" /\ b.ty = "number" /\ b.s = "" THEN Num(a.n + b.n)
  ELSE NaNValue

\* fn(arg), for the functions that change nothing.
RECURSIVE Apply(_, _, _)
Apply(h, fn, arg) ==
  LET impl == Implementation(h, fn)
      source == h[impl.ref].source
      a == FreeName(h, impl, "a")
      underA == FreeName(h, impl, "__a")
      f == FreeName(h, impl, "f")
      count == FreeName(h, impl, "count")
  IN CASE source = SrcAddA ->
            IF a = Unbound THEN Threw("ReferenceError") ELSE Returned(Plus(a, arg))
       [] source = SrcAddUnderA ->
            IF underA = Unbound THEN Threw("ReferenceError") ELSE Returned(Plus(underA, arg))
       [] source = SrcTo5 ->
            IF arg.n >= 5 THEN Returned(arg)
            ELSE IF f = Unbound THEN Threw("ReferenceError")
            ELSE IF ~IsCallable(h, f) THEN Threw("TypeError")
            ELSE Apply(h, f, Num(arg.n + 1))
       [] source = SrcIdentity -> Returned(arg)
       [] source = SrcGet ->
            IF count = Unbound THEN Threw("ReferenceError")
            ELSE IF ~IsRef(count) THEN Returned(Undef)
            ELSE Returned(GetOwn(h, count, "value"))
       [] OTHER -> Returned(Undef)

CallableSources == {SrcAddA, SrcAddUnderA, SrcTo5, SrcIdentity}
CallArguments == {Num(42), Num(4)}

\* The value the latest round trip returned is a function of the tests and
\* is called.
Call ==
  /\ pc = "decoded"
  /\ Len(called) < MaxCalls
  /\ LET fn == results[Len(results)]
     IN /\ IsCallable(heap, fn)
        /\ heap[Implementation(heap, fn).ref].source \in CallableSources
        /\ \E arg \in CallArguments :
             called' = Append(called, [round |-> round, arg |-> arg,
                                       outcome |-> Apply(heap, fn, arg)])
  /\ UNCHANGED <<heap, input, root, reg, viaJSON, pc, round, indexMap, contentArray,
                 rootIndex, stack, results, error, increments>>
  /\ UNCHANGED <<nested, passVars, toolVars>>

\* counter.get()
GetCount(h, counter) == Apply(h, GetOwn(h, counter, "get"), Undef)

\* counter.increment() on the original counter object (before the first
\* serialize or after a deserialize) or on the first decoded one: the body
\* `count.value++` of the boxed variable.
Increment ==
  /\ input = Ref(CounterId)
  /\ \E who \in {"before", "original", "decoded"} :
       LET counter == IF who = "decoded" THEN results[1] ELSE input
           fn == Implementation(heap, GetOwn(heap, counter, "increment"))
           count == FreeName(heap, fn, "count")
           a == Assign(heap, count, "value", Plus(GetOwn(heap, count, "value"), Num(1)))
       IN /\ pc = (IF who = "before" THEN "ready" ELSE "decoded")
          /\ increments[who] < MaxIncr
          /\ IsRef(counter)
          /\ IsCallable(heap, GetOwn(heap, counter, "increment"))
          /\ heap[fn.ref].source = SrcIncrement
          /\ IsRef(count)
          /\ a.ok
          /\ heap' = a.heap
          /\ increments' = [increments EXCEPT ![who] = @ + 1]
  /\ UNCHANGED <<input, root, reg, viaJSON, pc, round, indexMap, contentArray,
                 rootIndex, stack, results, error, called>>
  /\ UNCHANGED <<nested, passVars, toolVars>>

Next ==
  \/ Serialize \/ AddKnown \/ AddLeaf \/ AddEnter \/ AddThrow \/ AddReturn
  \/ SerializeReturn
  \/ Deserialize \/ GetKnown \/ GetLeaf \/ GetThrow \/ GetEnter \/ GetReturn
  \/ DefineProperty
  \/ Call \/ Increment

Spec == Init /\ [][Next]_vars


(***************************************************************************)
(* The analysis phase of the boxing pass: MutableSharedVariableFinder, a   *)
(* VariableVisitor, visits the nodes of a source file.  The file is drawn  *)
(* one node at a time: an action is the visit of one node, up to the       *)
(* visit of its body when it has one; Leave is the return from a body.     *)
(* Initializers and right-hand sides are literals.                         *)
(***************************************************************************)
MaxNodes == 4           \* nodes of a source file (identifiers, statements, functions)
MaxDepth == 3           \* scopes open at a time, the top-level scope included

Names == {"x"}
Anonymous == ""
Ids == 0..(2 * MaxNodes + 1)
NoId == -1
NoScope == NoId

\* new VariableNumberingScope(isFunctionScope, parent); key tells the objects apart.
VariableNumberingScope(isFunctionScope, key) ==
  [isFunctionScope |-> isFunctionScope, key |-> key,
   localVariables |-> [name \in Names |-> NoId]]

\* get functionScope(), from the i-th scope of the chain: its position.
RECURSIVE functionScope(_, _)
functionScope(sc, i) ==
  IF sc[i].isFunctionScope \/ i = 1 THEN i ELSE functionScope(sc, i - 1)

\* getId(name) called on the i-th scope of the chain: [id, numbering].
RECURSIVE getId(_, _, _, _)
getId(sc, num, i, name) ==
  IF sc[i].localVariables[name] # NoId
  THEN [id |-> sc[i].localVariables[name], numbering |-> num]
  ELSE IF num.pendingVariables[name] # NoId
  THEN [id |-> num.pendingVariables[name], numbering |-> num]
  ELSE IF i > 1 THEN getId(sc, num, i - 1, name)
  ELSE [id |-> num.counter,
        numbering |-> [counter |-> num.counter + 1,
                       pendingVariables |-> [num.pendingVariables EXCEPT ![name] = num.counter]]]

\* define(name) called on the i-th scope of the chain: [id, scope, numbering].
\* (The identifier of a declaration is a node the store has not seen.)
define(sc, num, i, name) ==
  LET pending == num.pendingVariables[name] # NoId
      newId == IF pending THEN num.pendingVariables[name] ELSE num.counter
  IN [id |-> newId,
      scope |-> [sc EXCEPT ![i].localVariables[name] = newId],
      numbering |-> IF pending
                    THEN [num EXCEPT !.pendingVariables[name] = NoId]
                    ELSE [num EXCEPT !.counter = num.counter + 1]]

\* VariableVisitor.defineVariables(name) for an identifier or nothing:
\* this.scope.functionScope.defineVariables(name).
defineVariables(sc, num, name) ==
  IF name = Anonymous THEN [id |-> NoId, scope |-> sc, numbering |-> num]
  ELSE define(sc, num, functionScope(sc, Len(sc)), name)

\* noteAppearanceIn(id, scope), given scope.functionScope.
noteAppearanceIn(fd, id, fnScope) ==
  IF fd.defScopes[id] # fnScope /\ \A k \in 1..Len(fd.sharedVars) : fd.sharedVars[k] # id
  THEN [fd EXCEPT !.sharedVars = Append(@, id)]
  ELSE fd

\* noteAppearance(id), given this.scope.functionScope.
noteAppearance(fd, id, fnScope) ==
  IF fd.defScopes[id] # NoScope
  THEN noteAppearanceIn(fd, id, fnScope)
  ELSE [fd EXCEPT !.pendingAppearanceScopes[id] = Append(@, fnScope)]

visitUse(fd, id, fnScope) == noteAppearance(fd, id, fnScope)

\* visitDef: the pending appearances are noted one by one, then deleted.
RECURSIVE notePending(_, _, _)
notePending(fd, id, scopes) ==
  IF scopes = <<>> THEN fd
  ELSE notePending(noteAppearanceIn(fd, id, Head(scopes)), id, Tail(scopes))

visitDef(fd, id, fnScope) ==
  LET defined == [fd EXCEPT !.defScopes[id] = fnScope]
  IN [notePending(defined, id, fd.pendingAppearanceScopes[id])
        EXCEPT !.pendingAppearanceScopes[id] = <<>>]

visitAssignment(fd, id, fnScope) ==
  [noteAppearance(fd, id, fnScope) EXCEPT !.updateCounts[id] = @ + 1]

\* get mutableSharedVariables()
mutableSharedVariables(fd) ==
  SelectSeq(fd.sharedVars, LAMBDA id : fd.updateCounts[id] > 1)

\* What is known of a variable id from the nodes visited: the kind of the
\* binding define was called for, the function scope define was called on,
\* the function scopes of the identifiers getId resolved to the id, and
\* the assignments to it (an initializer is one).
NoVariable == [name |-> Anonymous, kind |-> "none", def |-> NoScope, in |-> {}, assigned |-> 0]

Defined(v, id, name, kind, fnScope) ==
  IF id = NoId THEN v
  ELSE [v EXCEPT !.ids[id].name = name, !.ids[id].kind = kind, !.ids[id].def = fnScope]
Appeared(v, id, name, fnScope) ==
  [v EXCEPT !.ids[id].name = name, !.ids[id].in = @ \cup {fnScope}]
Assigned(v, id, name, fnScope) ==
  [Appeared(v, id, name, fnScope) EXCEPT !.ids[id].assigned = @ + 1]
Counted(v, scopes) ==
  [v EXCEPT !.nodes = @ + 1, !.scopes = @ + scopes]
\* An identifier the store was given the id for, with the scopes that were
\* open around it (outermost first); a binding the file declares for a name
\* in the scope `key`.
Used(v, id, name, path) ==
  IF id = NoId THEN v
  ELSE [v EXCEPT !.uses = Append(@, [id |-> id, name |-> name, path |-> path])]
Declared(v, key, name) ==
  IF name = Anonymous THEN v ELSE [v EXCEPT !.declared = @ \cup {[key |-> key, name |-> name]}]
Path(sc) == [i \in 1..Len(sc) |-> sc[i].key]

\* new MutableSharedVariableFinder(ctx), before it visits the source file.
FinderInit ==
  /\ heap = <<>> /\ input = Undef /\ root = Undef /\ reg = DefaultRegistries
  /\ viaJSON = FALSE /\ pc = "ready" /\ round = 0 /\ indexMap = <<>>
  /\ contentArray = <<>> /\ rootIndex = -1 /\ stack = <<>> /\ results = <<>>
  /\ error = "" /\ increments = [before |-> 0, original |-> 0, decoded |-> 0]
  /\ called = <<>> /\ nested = NoNested
  /\ NoTools
  /\ scope = <<VariableNumberingScope(TRUE, 0)>>
  /\ numbering = [counter |-> 0, pendingVariables |-> [name \in Names |-> NoId]]
  /\ finder = [updateCounts |-> [id \in Ids |-> 0],
               defScopes |-> [id \in Ids |-> NoScope],
               pendingAppearanceScopes |-> [id \in Ids |-> <<>>],
               sharedVars |-> <<>>]
  /\ chain = <<>>
  /\ visited = [nodes |-> 0, scopes |-> 1, ids |-> [id \in Ids |-> NoVariable],
                uses |-> <<>>, declared |-> {}]

CurrentFunctionScope == scope[functionScope(scope, Len(scope))].key

\* visit(node) for an identifier: visitUse(node, this.scope.getId(node)).
VisitIdentifier ==
  /\ visited.nodes < MaxNodes
  /\ \E name \in Names :
       LET got == getId(scope, numbering, Len(scope), name)
       IN /\ numbering' = got.numbering
          /\ finder' = visitUse(finder, got.id, CurrentFunctionScope)
          /\ visited' = Counted(Used(Appeared(visited, got.id, name, CurrentFunctionScope),
                                     got.id, name, Path(scope)), 0)
  /\ UNCHANGED <<scope, chain>>
  /\ UNCHANGED <<graphVars, toolVars>>

\* visitBinaryExpression for `name = literal` and `name += literal`, and
\* visitPreUpdateExpression and visitPostUpdateExpression for ++ and --:
\* getId, then visitAssignment, which returns no rewrite.
VisitBinaryExpression ==
  /\ visited.nodes < MaxNodes
  /\ \E name \in Names :
       LET got == getId(scope, numbering, Len(scope), name)
       IN /\ numbering' = got.numbering
          /\ finder' = visitAssignment(finder, got.id, CurrentFunctionScope)
          /\ visited' = Counted(Used(Assigned(visited, got.id, name, CurrentFunctionScope),
                                     got.id, name, Path(scope)), 0)
  /\ UNCHANGED <<scope, chain>>
  /\ UNCHANGED <<graphVars, toolVars>>

\* visitVariableStatement for one declaration `var name`, `var name = literal`,
\* `let name` or `let name = literal` (a const is visited as a let is).
VisitVariableStatement ==
  /\ visited.nodes < MaxNodes
  /\ \E name \in Names, initializer \in BOOLEAN, kind \in {"local", "let"} :
       LET def == defineVariables(scope, numbering, name)
           got == getId(def.scope, def.numbering, Len(scope), name)
           customInit == visitDef(finder, got.id, CurrentFunctionScope)
           bound == IF kind = "let" THEN scope[Len(scope)].key ELSE CurrentFunctionScope
           declared == Used(Declared(Defined(visited, def.id, name, kind, CurrentFunctionScope),
                                     bound, name),
                            got.id, name, Path(scope))
       IN /\ scope' = def.scope
          /\ numbering' = got.numbering
          /\ finder' = IF initializer
                       THEN visitAssignment(customInit, got.id, CurrentFunctionScope)
                       ELSE customInit
          /\ visited' = Counted(IF initializer
                                THEN Assigned(declared, got.id, name, CurrentFunctionScope)
                                ELSE declared, 0)
  /\ UNCHANGED chain
  /\ UNCHANGED <<graphVars, toolVars>>

\* visitFunctionBody(parameters, body, name), up to the visit of the body:
\* [scope, numbering, visited].
visitFunctionBody(sc, num, v, name, parameter) ==
  LET key == v.scopes
      entered == Append(sc, VariableNumberingScope(TRUE, key))
      named == defineVariables(entered, num, name)
      param == defineVariables(named.scope, named.numbering, parameter)
      inside == Append(Path(sc), key)
      names == Used(Declared(Defined(v, named.id, name, "function name", key), key, name),
                    named.id, name, inside)
  IN [scope |-> param.scope,
      numbering |-> param.numbering,
      visited |-> Counted(Used(Declared(Defined(names, param.id, parameter, "parameter", key),
                                        key, parameter),
                               param.id, parameter, inside), 1)]

\* visit(node) for an arrow function or a function expression (get and set
\* accessors and methods are visited as arrow functions are).
VisitFunctionExpression ==
  /\ visited.nodes < MaxNodes
  /\ Len(scope) < MaxDepth
  /\ \E name \in Names \cup {Anonymous}, parameter \in Names \cup {Anonymous} :
       LET body == visitFunctionBody(scope, numbering, visited, name, parameter)
       IN /\ name # parameter \/ name = Anonymous
          /\ scope' = body.scope
          /\ numbering' = body.numbering
          /\ visited' = body.visited
  /\ UNCHANGED <<finder, chain>>
  /\ UNCHANGED <<graphVars, toolVars>>

\* visitFunctionDeclaration, up to the visit of the body.
VisitFunctionDeclaration ==
  /\ visited.nodes < MaxNodes
  /\ Len(scope) < MaxDepth
  /\ \E name \in Names, parameter \in Names \cup {Anonymous} :
       LET def == defineVariables(scope, numbering, name)
           got == getId(def.scope, def.numbering, Len(scope), name)
           defInitializer == visitDef(finder, got.id, CurrentFunctionScope)
           declared == Used(Declared(Assigned(Defined(visited, def.id, name, "function",
                                                      CurrentFunctionScope),
                                              got.id, name, CurrentFunctionScope),
                                     CurrentFunctionScope, name),
                            got.id, name, Path(scope))
           body == visitFunctionBody(def.scope, got.numbering, declared, Anonymous, parameter)
       IN /\ finder' = visitAssignment(defInitializer, got.id, CurrentFunctionScope)
          /\ scope' = body.scope
          /\ numbering' = body.numbering
          /\ visited' = body.visited
  /\ UNCHANGED chain
  /\ UNCHANGED <<graphVars, toolVars>>

\* visitTryStatement for the catch clause `catch (name)`, and
\* visitForInOrOfStatement for `for (var name of/in ...)`, up to the visit of
\* the block or body: a new scope that is no function scope, and
\* defineVariables for the name.
VisitBindingStatement ==
  /\ visited.nodes < MaxNodes
  /\ Len(scope) < MaxDepth
  /\ \E name \in Names, kind \in {"catch", "loop"} :
       LET entered == Append(scope, VariableNumberingScope(FALSE, visited.scopes))
           def == defineVariables(entered, numbering, name)
       IN /\ scope' = def.scope
          /\ numbering' = def.numbering
          /\ visited' = Counted(Used(Declared(Defined(visited, def.id, name, kind,
                                                      CurrentFunctionScope),
                                              IF kind = "catch" THEN visited.scopes
                                              ELSE CurrentFunctionScope, name),
                                     def.id, name, Path(entered)), 1)
  /\ UNCHANGED <<finder, chain>>
  /\ UNCHANGED <<graphVars, toolVars>>

\* The visit of a body is over: this.scope = oldScope.
Leave ==
  /\ Len(scope) > 1
  /\ scope' = SubSeq(scope, 1, Len(scope) - 1)
  /\ UNCHANGED <<numbering, finder, chain, visited>>
  /\ UNCHANGED <<graphVars, toolVars>>

FinderNext ==
  \/ VisitIdentifier \/ VisitBinaryExpression \/ VisitVariableStatement
  \/ VisitFunctionExpression \/ VisitFunctionDeclaration \/ VisitBindingStatement
  \/ Leave

FinderSpec == FinderInit /\ [][FinderNext]_vars


(***************************************************************************)
(* The closure capture pass: visitor(ctx) visits the nodes of a source     *)
(* file with a chain of CapturedVariableScope objects, one per function.   *)
(* chain.objects holds every object made, chain.captured is the position   *)
(* of the one the running visitor was made for.  An action is the visit of *)
(* one node, up to the visit of its body when it has one.                  *)
(***************************************************************************)
\* new CapturedVariableScope(parent): used and usedNames hold the same names.
CapturedVariableScope(parent) == [parent |-> parent, usedNames |-> <<>>, declared |-> <<>>]

Contains(seq, name) == \E k \in 1..Len(seq) : seq[k] = name

\* splice(index, 1) at the first position of name.
Splice(seq, name) ==
  LET index == CHOOSE k \in 1..Len(seq) : seq[k] = name /\ \A j \in 1..(k - 1) : seq[j] # name
  IN SubSeq(seq, 1, index - 1) \o SubSeq(seq, index + 1, Len(seq))

\* A use that goes by the captured names alone, whatever is declared.
RECURSIVE useDeclared(_, _, _)
useDeclared(objects, i, name) ==
  IF Contains(objects[i].usedNames, name)
  THEN objects
  ELSE LET pushed == [objects EXCEPT ![i].usedNames = Append(@, name)]
       IN IF objects[i].parent # 0 THEN useDeclared(pushed, objects[i].parent, name) ELSE pushed

\* use(name) called on the i-th object.
RECURSIVE use(_, _, _)
use(objects, i, name) ==
  IF Contains(objects[i].usedNames, name) \/ Contains(objects[i].declared, name)
  THEN objects
  ELSE LET pushed == [objects EXCEPT ![i].usedNames = Append(@, name)]
       IN IF objects[i].parent # 0 THEN use(pushed, objects[i].parent, name) ELSE pushed

useIfNamed(objects, i, name) ==
  IF name = Anonymous THEN objects ELSE use(objects, i, name)

\* declare(name, isHoisted) called on the i-th object (nothing for no name).
declare(objects, i, name, isHoisted) ==
  IF name = Anonymous \/ Contains(objects[i].declared, name) THEN objects
  ELSE [objects EXCEPT ![i].declared = Append(@, name),
                       ![i].usedNames = IF isHoisted /\ Contains(@, name)
                                        THEN Splice(@, name) ELSE @]

\* get captured()
captured(objects, i) == objects[i].usedNames

\* What the source file holds for each function, in the order of
\* chain.objects: the names its own name, its parameters, its variable
\* declarations and the function declarations in its body declare in it,
\* and the names of the identifiers in its body that are in no nested
\* function; own holds its own name and its parameters alone, kind tells
\* a function declaration from an arrow function or function expression.  letOrConst
\* tells whether a declaration list of the file is a let or a const.
NoFunction == [declares |-> {}, uses |-> {}, own |-> {}, kind |-> "file"]

Declares(v, i, name) ==
  IF name = Anonymous THEN v ELSE [v EXCEPT !.functions[i].declares = @ \cup {name}]

\* visitor(new CapturedVariableScope()), before it visits the source file.
CaptureInit ==
  /\ heap = <<>> /\ input = Undef /\ root = Undef /\ reg = DefaultRegistries
  /\ viaJSON = FALSE /\ pc = "ready" /\ round = 0 /\ indexMap = <<>>
  /\ contentArray = <<>> /\ rootIndex = -1 /\ stack = <<>> /\ results = <<>>
  /\ error = "" /\ increments = [before |-> 0, original |-> 0, decoded |-> 0]
  /\ called = <<>> /\ nested = NoNested
  /\ NoTools
  /\ scope = <<>>
  /\ numbering = [counter |-> 0]
  /\ finder = [sharedVars |-> <<>>]
  /\ chain = [objects |-> <<CapturedVariableScope(0)>>, captured |-> 1]
  /\ visited = [nodes |-> 0, letOrConst |-> FALSE, functions |-> <<NoFunction>>]

\* The number of objects from the i-th object up to the one of the source file.
RECURSIVE ChainLength(_, _)
ChainLength(objects, i) ==
  IF objects[i].parent = 0 THEN 1 ELSE 1 + ChainLength(objects, objects[i].parent)

\* The visitor for an identifier: captured.use(node).
VisitCapturedIdentifier ==
  /\ visited.nodes < MaxNodes
  /\ \E name \in Names :
       /\ chain' = [chain EXCEPT !.objects = use(@, chain.captured, name)]
       /\ visited' = [visited EXCEPT !.nodes = @ + 1,
                                     !.functions[chain.captured].uses = @ \cup {name}]
  /\ UNCHANGED <<scope, numbering, finder>>
  /\ UNCHANGED <<graphVars, toolVars>>

\* The visitor for a variable declaration list of one declaration with a
\* literal initializer or none: visitDeclaration declares the name, then the
\* children of the declaration are visited, its name among them.
VisitVariableDeclarationList ==
  /\ visited.nodes < MaxNodes
  /\ \E name \in Names, isHoisted \in BOOLEAN :
       /\ chain' = [chain EXCEPT !.objects =
                      use(declare(@, chain.captured, name, isHoisted), chain.captured, name)]
       /\ visited' = [Declares(visited, chain.captured, name) EXCEPT
                        !.nodes = @ + 1, !.letOrConst = @ \/ ~isHoisted]
  /\ UNCHANGED <<scope, numbering, finder>>
  /\ UNCHANGED <<graphVars, toolVars>>

\* transformLambda for an arrow function (no name) or a function expression,
\* up to the visit of the body: the name and the parameter are among the
\* children visitAndExtractCapturedSymbols visits.
transformLambda ==
  /\ visited.nodes < MaxNodes
  /\ ChainLength(chain.objects, chain.captured) < MaxDepth
  /\ \E name \in Names \cup {Anonymous}, parameter \in Names \cup {Anonymous} :
       LET parentChain == chain.captured
           new == Len(chain.objects) + 1
           made == Append(chain.objects, CapturedVariableScope(parentChain))
           named == declare(declare(made, parentChain, name, FALSE), new, name, FALSE)
           withParameter == declare(named, new, parameter, FALSE)
           children == {n \in {name, parameter} : n # Anonymous}
           visitedChildren == useIfNamed(useIfNamed(withParameter, new, name), new, parameter)
       IN /\ name # parameter \/ name = Anonymous
          /\ chain' = [objects |-> visitedChildren, captured |-> new]
          /\ visited' = [visited EXCEPT
                           !.nodes = @ + 1,
                           !.functions = Append(@, [declares |-> children, uses |-> {},
                                                    own |-> children,
                                                    kind |-> "expression"])]
  /\ UNCHANGED <<scope, numbering, finder>>
  /\ UNCHANGED <<graphVars, toolVars>>

\* transformFunctionDeclaration, up to the visit of the body.
transformFunctionDeclaration ==
  /\ visited.nodes < MaxNodes
  /\ ChainLength(chain.objects, chain.captured) < MaxDepth
  /\ \E name \in Names, parameter \in Names \cup {Anonymous} :
       LET parentChain == chain.captured
           new == Len(chain.objects) + 1
           made == Append(chain.objects, CapturedVariableScope(parentChain))
           named == declare(declare(made, parentChain, name, TRUE), new, name, TRUE)
           withParameter == declare(named, new, parameter, FALSE)
       IN /\ chain' = [objects |-> withParameter, captured |-> new]
          /\ visited' = [Declares(visited, parentChain, name) EXCEPT
                           !.nodes = @ + 1,
                           !.functions = Append(@, [declares |-> {name, parameter} \ {Anonymous},
                                                    uses |-> {},
                                                    own |-> {name, parameter} \ {Anonymous},
                                                    kind |-> "declaration"])]
  /\ UNCHANGED <<scope, numbering, finder>>
  /\ UNCHANGED <<graphVars, toolVars>>

\* The body of a function is visited: its captured list is read and the
\* visitor of the enclosing function goes on.
ExtractCapturedSymbols ==
  /\ chain.objects[chain.captured].parent # 0
  /\ chain' = [chain EXCEPT !.captured = chain.objects[chain.captured].parent]
  /\ UNCHANGED <<scope, numbering, finder, visited>>
  /\ UNCHANGED <<graphVars, toolVars>>

CaptureNext ==
  \/ VisitCapturedIdentifier \/ VisitVariableDeclarationList
  \/ transformLambda \/ transformFunctionDeclaration \/ ExtractCapturedSymbols

CaptureSpec == CaptureInit /\ [][CaptureNext]_vars


(***************************************************************************)
(* Comparing graphs.  An edge of a value is a reference it holds: its      *)
(* prototype, an element, the value, getter or setter of an own property,  *)
(* a captured variable of a function.  Two values correspond when the same *)
(* path of edges leads to them from two given roots.                       *)
(***************************************************************************)
Edge(what, key, i, to) == [what |-> what, key |-> key, i |-> i, to |-> to]

Edges(h, v) ==
  IF ~IsRef(v) THEN {}
  ELSE LET cell == h[v.ref]
           env == h[Implementation(h, v).ref].env
       IN (IF cell.kind = "object" THEN {Edge("proto", "", 0, cell.proto)} ELSE {})
          \cup {Edge("elem", "", i, cell.elems[i]) : i \in 1..Len(cell.elems)}
          \cup {Edge("value", cell.props[i].key, 0, cell.props[i].value) :
                  i \in {j \in 1..Len(cell.props) : cell.props[j].isData}}
          \cup {Edge("get", cell.props[i].key, 0, cell.props[i].get) :
                  i \in {j \in 1..Len(cell.props) : ~cell.props[j].isData}}
          \cup {Edge("set", cell.props[i].key, 0, cell.props[i].set) :
                  i \in {j \in 1..Len(cell.props) : ~cell.props[j].isData}}
          \cup {Edge("env", env[i].name, 0, env[i].value) : i \in 1..Len(env)}

RECURSIVE Correspond(_, _, _)
Correspond(h, todo, seen) ==
  IF todo = {} THEN seen
  ELSE LET p == CHOOSE q \in todo : TRUE
           next == {[a |-> e.to, b |-> f.to] :
                      <<e, f>> \in {x \in Edges(h, p.a) \X Edges(h, p.b) :
                                      /\ x[1].what = x[2].what
                                      /\ x[1].key = x[2].key
                                      /\ x[1].i = x[2].i}}
       IN Correspond(h, (todo \cup next) \ (seen \cup {p}), seen \cup {p})

\* The pairs (a, b) that one path reaches from `a` and from `b`.
Correspondence(h, a, b) == Correspond(h, {[a |-> a, b |-> b]}, {})

RECURSIVE ReachableFrom(_, _, _)
ReachableFrom(h, todo, seen) ==
  IF todo = {} THEN seen
  ELSE LET v == CHOOSE w \in todo : TRUE
           next == {e.to : e \in {x \in Edges(h, v) : IsRef(x.to)}}
       IN ReachableFrom(h, (todo \cup next) \ (seen \cup {v}), seen \cup {v})

\* The value is reachable from itself.
OnCycle(h, v) ==
  v \in ReachableFrom(h, {e.to : e \in {x \in Edges(h, v) : IsRef(x.to)}}, {})

\* What a value is, apart from the values it refers to.
Shape(h, v) ==
  IF ~IsRef(v) THEN [primitive |-> v]
  ELSE LET cell == h[v.ref]
           impl == h[Implementation(h, v).ref]
       IN [kind |-> cell.kind,
           source |-> impl.source,
           length |-> Len(cell.elems),
           noPrototype |-> cell.proto = Null,
           properties |-> {[key |-> cell.props[i].key, isData |-> cell.props[i].isData,
                            configurable |-> cell.props[i].configurable,
                            writable |-> cell.props[i].writable,
                            enumerable |-> cell.props[i].enumerable] :
                             i \in 1..Len(cell.props)},
           captured |-> {impl.env[i].name : i \in 1..Len(impl.env)}]

\* The document in hand is one serialize returned.
Unaltered == \A i \in 1..Len(contentArray) : contentArray[i].kind # UnknownKind

\* The first round trip has returned: results[1] = deserialize(serialize(input)).
RoundTripped == pc = "decoded" /\ Len(results) = 1


(***************************************************************************)
(* Properties.                                                             *)
(***************************************************************************)

\* C1: if two reference paths from the root reach the same object, array or
\* function, the same two paths in deserialize(serialize(root)) reach one and
\* the same decoded value.
AliasingPreserved ==
  RoundTripped =>
    \A p, q \in Correspondence(heap, input, results[1]) :
      (IsRef(p.a) /\ p.a = q.a) => p.b = q.b

\* C2: for a graph with a cycle, encoding and decoding give every node index
\* at most one entry of the index map, and a path that leads from a node back
\* to that node leads from its decoded counterpart back to that counterpart.
CycleSafe ==
  /\ Unaltered =>
       \A i, j \in 1..Len(indexMap) : indexMap[i].index = indexMap[j].index => i = j
  /\ RoundTripped =>
       \A p, q \in Correspondence(heap, input, results[1]) :
         (IsRef(p.a) /\ OnCycle(heap, p.a) /\ p.a = q.a) => p.b = q.b

\* C3: a finite number, a string, a boolean, null and undefined come back
\* from every round trip as themselves, whether or not the document goes
\* through JSON text, and no round trip of such a value throws.  (A value a
\* registered custom serializer claims comes back as whatever the registered
\* deserializer makes of it and is not the subject here.)
IsJSONPrimitive(v) ==
  \/ v.ty \in {"string", "boolean", "null"}
  \/ v.ty = "number" /\ v.s = ""

PrimitiveRoundTrip ==
  (/\ IsJSONPrimitive(input) \/ input = Undef
   /\ retrieveCustomSerializer(input, reg.customSerializers) = 0) =>
    /\ \A i \in 1..Len(results) : results[i] = input
    /\ (pc = "threw" => ~Unaltered)

PrimitiveRoundTripWitness ==
  /\ pc = "decoded"
  /\ viaJSON
  /\ round = 2
  /\ input \in {Undef, Num(0)}
  /\ results = <<input, input>>

\* C4: the decoded function returns what the source text returns with every
\* name of the closure mapping bound to the decoded counterpart of its value.
ClosureFidelity ==
  /\ \A i \in 1..Len(called) :
       called[i].round = 1 => called[i].outcome = Apply(heap, input, called[i].arg)
  /\ (RoundTripped /\ IsCallable(heap, input) /\ IsCallable(heap, results[1])) =>
       \A i \in 1..Len(heap[input.ref].env) :
         LET binding == heap[input.ref].env[i]
             decoded == FreeName(heap, Implementation(heap, results[1]), binding.name)
         IN /\ decoded # Unbound
            /\ IsRef(binding.value) = IsRef(decoded)
            /\ ~IsRef(binding.value) => decoded = binding.value

\* C5: the decoded get and increment share one container, which is not the
\* original's, and get on either counter object returns the initial count
\* plus the increments made before serialization plus those made through
\* that object after it.
CounterBox(h, counter, method) ==
  FreeName(h, Implementation(h, GetOwn(h, counter, method)), "count")

CounterIndependence ==
  input = Ref(CounterId) =>
    /\ GetCount(heap, input)
         = Returned(Num(InitialCount + increments.before + increments.original))
    /\ Len(results) >= 1 =>
         /\ GetCount(heap, results[1])
              = Returned(Num(InitialCount + increments.before + increments.decoded))
         /\ IsRef(CounterBox(heap, results[1], "get"))
         /\ CounterBox(heap, results[1], "get") = CounterBox(heap, results[1], "increment")
         /\ CounterBox(heap, results[1], "get") # CounterBox(heap, input, "get")

CounterIndependenceWitness ==
  /\ input = Ref(CounterId)
  /\ pc = "decoded"
  /\ increments = [before |-> 1, original |-> 2, decoded |-> 1]
  /\ GetCount(heap, input) = Returned(Num(InitialCount + 3))
  /\ GetCount(heap, results[1]) = Returned(Num(InitialCount + 2))

\* C6: a second round trip of an accepted value succeeds, no function record
\* carries the thunk's source text, and the value it returns has, when it is
\* returned and along every path, the shape of the value the first round
\* trip returned.
Idempotent ==
  [][/\ (round >= 2 /\ pc' = "threw") => ~Unaltered'
     /\ \A i \in 1..Len(contentArray') : contentArray'[i].source \notin {SrcThunk, SrcThunkTail}
     /\ (pc = "decoding" /\ pc' = "decoded" /\ Len(results') >= 2) =>
          \A p \in Correspondence(heap', results'[1], results'[Len(results')]) :
            Shape(heap', p.a) = Shape(heap', p.b)]_vars

\* C7: a value of the encoding builtin registry that no custom serializer
\* claims has a record with the kind builtin and its name only, every value
\* of the graph is the root or referred to by a value encoded structurally,
\* and a builtin record decodes to the value the decoding registry holds
\* under the name.
IsChild(h, parent, v) ==
  \/ v \in {e.to : e \in Edges(h, parent)}
  \/ /\ h[parent.ref].kind = "function"
     /\ \/ v = Undef
        \/ v = GetOwn(h, Implementation(h, parent), "prototype")
        \/ v = h[Implementation(h, parent).ref].closureRet
        \* the object the closure accessor built during the call
        \/ /\ h[Implementation(h, parent).ref].accessor \in {"fresh", "reentrant"}
           /\ IsRef(v)
           /\ v.ref > InputCells

BuiltinShortCircuit ==
  /\ (pc = "encoded" /\ round = 1) =>
       \A i \in 1..Len(indexMap) :
         LET v == indexMap[i].element
             name == getNameOfBuiltin(v, reg.builtins)
         IN /\ (name # NoName /\ retrieveCustomSerializer(v, reg.customSerializers) = 0) =>
                 contentArray[indexMap[i].index + 1]
                   = [SerializedRecord("builtin") EXCEPT !.name = name]
            /\ \/ i = 1
               \/ \E j \in 1..(i - 1) :
                    /\ contentArray[indexMap[j].index + 1].kind \in ContainerKinds
                    /\ IsChild(heap, indexMap[j].element, v)
  /\ (pc \in {"decoding", "decoded"}) =>
       \A i \in 1..Len(indexMap) :
         LET rec == contentArray[indexMap[i].index + 1]
         IN rec.kind = "builtin" =>
              \E k \in 1..Len(reg.decodeBuiltins) :
                /\ reg.decodeBuiltins[k].name = rec.name
                /\ StrictEquals(indexMap[i].element, reg.decodeBuiltins[k].builtin)

BuiltinShortCircuitWitness ==
  /\ pc = "decoded"
  /\ input = Ref(AliasObjId)
  /\ reg.id = "user"
  /\ Len(contentArray) = 3
  /\ GetOwn(heap, results[1], "a") = Ref(OtherBuiltinId)
  /\ GetOwn(heap, results[1], "b") = Ref(OtherBuiltinId)

\* C8: no record has, among its plain references or its descriptions, a
\* property whose name begins with two underscores, and no decoded value has
\* such an own property.
UnderscoreElision ==
  /\ \A i \in 1..Len(contentArray) :
       /\ \A k \in 1..Len(contentArray[i].refs) :
            ~StartsWithTwoUnderscores(contentArray[i].refs[k].key)
       /\ \A k \in 1..Len(contentArray[i].descriptions) :
            ~StartsWithTwoUnderscores(contentArray[i].descriptions[k].key)
  /\ RoundTripped =>
       \A p \in Correspondence(heap, input, results[1]) :
         (IsRef(p.b) /\ KindOf(heap, p.a, reg) \in {"object", "function"}) =>
           \A k \in 1..Len(heap[p.b.ref].props) :
             ~StartsWithTwoUnderscores(heap[p.b.ref].props[k].key)

\* C9: an own property that is not a writable, enumerable, configurable data
\* property is an own property of the decoded value with the same
\* configurable, enumerable and writable flags, and its value, getter and
\* setter are the decoded counterparts.
DescriptorsPreserved ==
  RoundTripped =>
    \A p \in Correspondence(heap, input, results[1]) :
      (IsRef(p.a) /\ KindOf(heap, p.a, reg) \in {"object", "function"}) =>
        \A k \in 1..Len(heap[p.a.ref].props) :
          LET desc == heap[p.a.ref].props[k]
              i == IF IsRef(p.b) THEN OwnPropertyIndex(heap[p.b.ref], desc.key) ELSE 0
              decoded == heap[p.b.ref].props[i]
          IN (~IsTypicalProperty(desc) /\ ~StartsWithTwoUnderscores(desc.key)) =>
               /\ i # 0
               /\ decoded.isData = desc.isData
               /\ decoded.configurable = desc.configurable
               /\ decoded.enumerable = desc.enumerable
               /\ decoded.writable = desc.writable
               /\ IsRef(decoded.value) = IsRef(desc.value)
               /\ IsRef(decoded.get) = IsRef(desc.get)
               /\ IsRef(decoded.set) = IsRef(desc.set)

\* C10: when get is called for a record that is a builtin whose name the
\* decoding registry lacks, a custom whose name the decoding deserializers
\* lack, or of an unknown kind, the next step is the throw; after a throw
\* nothing happens and no value has been returned for the round.
ReachesUnknown ==
  /\ pc = "decoding"
  /\ Top.todo # <<>>
  /\ Head(Top.todo).what # "define"
  /\ InRange(Head(Top.todo).index)
  /\ ElementAtIndex(indexMap, Head(Top.todo).index) = Absent
  /\ LET rec == contentArray[Head(Top.todo).index + 1]
     IN \/ /\ rec.kind = "builtin"
           /\ \A k \in 1..Len(reg.decodeBuiltins) : reg.decodeBuiltins[k].name # rec.name
        \/ /\ rec.kind = "custom"
           /\ \A k \in 1..Len(reg.customDeserializers) :
                reg.customDeserializers[k].name # rec.name
        \/ rec.kind \notin KnownKinds

UnknownIsFatal ==
  [][/\ ReachesUnknown => (pc' = "threw" /\ results' = results)
     /\ pc # "threw"
     /\ pc' = "threw" => Len(results') = round' - 1]_vars

UnknownIsFatalWitness ==
  /\ pc = "threw"
  /\ input = Ref(HolderId)
  /\ reg.id = "partial"
  /\ Unaltered
  /\ error = "Cannot deserialize unknown builtin"
  /\ results = <<>>

\* C11: when add is called for a function that no custom serializer claims,
\* that is no builtin and whose text is native code or a class, the next
\* step is the throw, whatever called add (serialize itself, a property, an
\* element, a prototype, a closure, a getter or a setter); serialize has
\* then returned no root index and no document is ever decoded.
ReachesUnserializable ==
  /\ pc = "encoding"
  /\ Top.todo # <<>>
  /\ LET value == Head(Top.todo).val
     IN /\ IsRef(value)
        /\ heap[value.ref].kind = "function"
        /\ heap[value.ref].source \in {SrcNative, SrcClass}
        /\ retrieveCustomSerializer(value, reg.customSerializers) = 0
        /\ getNameOfBuiltin(value, reg.builtins) = NoName

UnserializableIsFatal ==
  [][/\ ReachesUnserializable =>
          /\ pc' = "threw"
          /\ error' = "Cannot serialize"
          /\ rootIndex' = -1
          /\ results' = results
     /\ error = "Cannot serialize" => FALSE]_vars

UnserializableIsFatalWitness ==
  /\ pc = "threw"
  /\ error = "Cannot serialize"
  /\ input = Ref(BoundEnvId)
  /\ Head(Top.todo).what = "ref"
  /\ Head(Top.todo).val = Ref(BoundFnId)
  /\ Len(stack) = 3
  /\ rootIndex = -1

\* C12: an add of a new value that a registered custom serializer claims by
\* reference stores, in that one step, the custom record with the name and
\* the string of the first serializer claiming it (whether the value is also
\* a builtin, a primitive or an object with content), and makes no further
\* add for it; and while decoding, the element recorded for a custom record
\* is what the first deserializer registered under the record's name
\* returns for the record's string.
ClaimedBy(value, k) ==
  /\ k \in 1..Len(reg.customSerializers)
  /\ StrictEquals(reg.customSerializers[k].value, value)
  /\ \A j \in 1..(k - 1) : ~StrictEquals(reg.customSerializers[j].value, value)

CustomPrecedence ==
  [][/\ (/\ pc = "encoding"
         /\ Top.todo # <<>>
         /\ IndexOfValue(indexMap, Head(Top.todo).val) = -1
         /\ \E k \in 1..Len(reg.customSerializers) : ClaimedBy(Head(Top.todo).val, k)) =>
          LET value == Head(Top.todo).val
              k == CHOOSE k \in 1..Len(reg.customSerializers) : ClaimedBy(value, k)
          IN /\ contentArray' =
                  Append(contentArray,
                         [SerializedRecord("custom") EXCEPT
                            !.name = reg.customSerializers[k].name,
                            !.value = Str(reg.customSerializers[k].serializer),
                            !.hasValue = TRUE])
             /\ indexMap' = Append(indexMap, [element |-> value, index |-> Len(contentArray)])
             /\ Len(stack') <= Len(stack)
             /\ heap' = heap
             /\ pc' \in {"encoding", "encoded"}
     /\ pc' \in {"decoding", "decoded"} =>
          \A i \in 1..Len(indexMap') :
            LET rec == contentArray'[indexMap'[i].index + 1]
            IN rec.kind = "custom" =>
                 \E k \in 1..Len(reg.customDeserializers) :
                   /\ reg.customDeserializers[k].name = rec.name
                   /\ \A j \in 1..(k - 1) : reg.customDeserializers[j].name # rec.name
                   /\ rec.value.s \in DOMAIN reg.customDeserializers[k].deserializer
                   /\ indexMap'[i].element
                        = reg.customDeserializers[k].deserializer[rec.value.s]]_vars

CustomPrecedenceWitness ==
  /\ pc = "decoded"
  /\ reg.id = "custom"
  /\ input = Ref(HolderId)
  /\ Len(contentArray) = 4
  /\ contentArray[3].kind = "custom" /\ contentArray[3].value = Str("M")
  /\ contentArray[4].kind = "custom" /\ contentArray[4].name = "mark-serializer"
  /\ IsRef(results[1])
  /\ GetOwn(heap, results[1], "m") = Str("was Math")
  /\ GetOwn(heap, results[1], "c") = Str("Oh hi Mark!")

\* C13: once the analysis phase has visited the whole source file, a variable
\* id is one of mutableSharedVariables if and only if some function scope in
\* which an identifier resolved to the id differs from the function scope
\* the id was defined on and the id was assigned more than once, whatever
\* the kind of the binding and whether the identifiers came before or after
\* the definition.
IsMutableShared(id) ==
  LET variable == visited.ids[id]
  IN /\ variable.def # NoScope
     /\ \E fnScope \in variable.in : fnScope # variable.def
     /\ variable.assigned > 1

MutableSharedIff ==
  (Len(scope) = 1 /\ visited.nodes > 0) =>
    \A id \in Ids :
      (\E k \in 1..Len(mutableSharedVariables(finder)) : mutableSharedVariables(finder)[k] = id)
        <=> IsMutableShared(id)

\* The same for the ids of the bindings a variable statement or a function
\* declaration makes.
MutableSharedIffDeclared ==
  (Len(scope) = 1 /\ visited.nodes > 0) =>
    \A id \in Ids :
      visited.ids[id].kind \in {"local", "function", "none"} =>
        ((\E k \in 1..Len(mutableSharedVariables(finder)) : mutableSharedVariables(finder)[k] = id)
           <=> IsMutableShared(id))

\* C14: once the capture pass has visited the whole source file, a name is
\* in the captured list of a function if and only if an identifier of that
\* name in the function's body, nested functions included, belongs to a
\* declaration of an enclosing function or of the source file, and to none
\* of the function itself or of a nested function around the identifier;
\* hoisted or not, before or after the identifier.  (An identifier no
\* declaration of the file accounts for is left out of the comparison.)
RECURSIVE Encloses(_, _)
Encloses(outer, inner) ==
  \/ outer = inner
  \/ /\ chain.objects[inner].parent # 0
     /\ Encloses(outer, chain.objects[inner].parent)

\* The function whose declaration an identifier of that name in function i
\* belongs to, 0 if there is none.
RECURSIVE DeclaringFunction(_, _)
DeclaringFunction(i, name) ==
  IF name \in visited.functions[i].declares THEN i
  ELSE IF chain.objects[i].parent = 0 THEN 0
  ELSE DeclaringFunction(chain.objects[i].parent, name)

UsesOf(function, name) ==
  {i \in 1..Len(chain.objects) : Encloses(function, i) /\ name \in visited.functions[i].uses}

CapturesOuter(function, name) ==
  \E i \in UsesOf(function, name) :
    LET declaring == DeclaringFunction(i, name)
    IN declaring # function /\ Encloses(declaring, function)

CapturedIff ==
  (chain # <<>> /\ chain.captured = 1 /\ visited.nodes > 0) =>
    \A function \in 2..Len(chain.objects), name \in Names :
      (\A i \in UsesOf(function, name) : DeclaringFunction(i, name) # 0) =>
        (Contains(captured(chain.objects, function), name) <=> CapturesOuter(function, name))

\* C15: the document a serialize call returns has the fields root and data
\* and no other; data holds one record per value added, in the order the
\* values were added, each with the kind tag of the branch that encodes the
\* value and none a reserved slot; and root and every index in a record (of
\* an element, a property, a getter, a setter or a value of a description,
\* the closure, the prototype) is one of 0..length(data)-1, the indices a
\* record must have being there.
IsNodeIndex(index, data) == index \in 0..(Len(data) - 1)

RecordComplete(rec, data) ==
  /\ rec.kind \in KnownKinds
  /\ \A k \in 1..Len(rec.refs) : IsNodeIndex(rec.refs[k].index, data)
  /\ \A k \in 1..Len(rec.descriptions) :
       LET description == rec.descriptions[k]
       IN /\ \A index \in {description.get, description.set, description.value} :
               index = -1 \/ IsNodeIndex(index, data)
          /\ \E index \in {description.get, description.set, description.value} :
               IsNodeIndex(index, data)
  /\ rec.kind = "function" => IsNodeIndex(rec.closure, data)
  /\ rec.kind \in {"function", "object"} => IsNodeIndex(rec.prototype, data)
  /\ rec.kind \notin {"function", "object"} => rec.closure = -1 /\ rec.prototype = -1

DocumentWellFormed ==
  pc = "encoded" =>
    /\ DOMAIN toJSON = {"root", "data"}
    /\ toJSON.data # <<>>
    /\ IsNodeIndex(toJSON.root, toJSON.data)
    /\ Len(indexMap) = Len(toJSON.data)
    /\ \A i \in 1..Len(toJSON.data) :
         LET rec == toJSON.data[i]
             value == indexMap[i].element
         IN /\ indexMap[i].index = i - 1
            /\ rec.kind = KindOf(heap, value, reg)
            /\ RecordComplete(rec, toJSON.data)
            /\ rec.kind = "array" => Len(rec.refs) = Len(heap[value.ref].elems)
            /\ rec.kind \in {"function", "object"} =>
                 \A k \in 1..Len(rec.descriptions) :
                   LET desc == heap[FunctionSubject(heap, value).ref].props[
                                 OwnPropertyIndex(heap[FunctionSubject(heap, value).ref],
                                                  rec.descriptions[k].key)]
                   IN /\ Truthy(desc.get) <=> rec.descriptions[k].get # -1
                      /\ Truthy(desc.set) <=> rec.descriptions[k].set # -1
                      /\ desc.isData <=> rec.descriptions[k].value # -1

DocumentWellFormedWitness ==
  /\ pc = "encoded"
  /\ input = Ref(GenId)
  /\ Len(toJSON.data) >= 4
  /\ toJSON.root = 0
  /\ Len(toJSON.data[1].descriptions) = 1
  /\ toJSON.data[1].descriptions[1].get > 0
  /\ toJSON.data[1].descriptions[1].set > 0
  /\ toJSON.data[1].prototype > 0

\* C16: while a document that serialize produced is decoded and after, the
\* index map holds at most one entry for a node index, and the value a get
\* call returns for an index is the element of the entry the index map
\* holds for it.
MemoUnique ==
  (pc \in {"decoding", "decoded"} /\ Unaltered) =>
    /\ \A i, j \in 1..Len(indexMap) : indexMap[i].index = indexMap[j].index => i = j
    /\ (pc = "decoded" /\ indexMap # <<>>) =>
         results[Len(results)] = ElementAtIndex(indexMap, rootIndex)

\* C17: while a serialize call runs and when it has returned or thrown, the
\* index map and the content array have the same length, the k-th entry of
\* the index map has index k-1, no two entries hold the same (===) value,
\* and every add call that has not returned has its entry in the index map
\* and a reserved slot at its index; and an add of a value the index map
\* holds returns the index of its entry and changes neither the index map
\* nor the content array.
Encoding == pc \in {"encoding", "encoded"} \/ (pc = "threw" /\ error = "Cannot serialize")

MemoInStep ==
  Encoding =>
    /\ Len(indexMap) = Len(contentArray)
    /\ \A k \in 1..Len(indexMap) : indexMap[k].index = k - 1
    /\ \A i, j \in 1..Len(indexMap) :
         StrictEquals(indexMap[i].element, indexMap[j].element) => i = j
    /\ \A f \in 2..Len(stack) :
         /\ stack[f].index \in 0..(Len(contentArray) - 1)
         /\ contentArray[stack[f].index + 1] = Reserved
         /\ f > 2 => stack[f].index > stack[f - 1].index
         /\ stack[f - 1].todo # <<>>
         /\ StrictEquals(indexMap[stack[f].index + 1].element, Head(stack[f - 1].todo).val)

AddIsMemoized ==
  /\ []MemoInStep
  /\ [][(/\ pc = "encoding"
         /\ Top.todo # <<>>
         /\ \E k \in 1..Len(indexMap) : StrictEquals(indexMap[k].element, Head(Top.todo).val)) =>
          LET slot == Head(Top.todo)
              k == CHOOSE k \in 1..Len(indexMap) : StrictEquals(indexMap[k].element, slot.val)
          IN /\ indexMap' = indexMap
             /\ contentArray' = contentArray
             /\ heap' = heap
             /\ IF slot.what = "root"
                THEN rootIndex' = k - 1 /\ pc' = "encoded"
                ELSE /\ Len(stack') = Len(stack)
                     /\ stack'[Len(stack)].rec = FillSlot(Top.rec, slot, k - 1)
                     /\ stack'[Len(stack)].todo = Tail(Top.todo)]_vars

AddIsMemoizedWitness ==
  /\ pc = "encoding"
  /\ input = Ref(SelfObjId)
  /\ Len(stack) = 2
  /\ Len(indexMap) = 2
  /\ Top.index = 0
  /\ Top.todo = <<>>
  /\ Top.rec.refs = <<[key |-> "self", index |-> 0]>>

\* C18: when deserializeProperties defines the property of a description,
\* the property is defined, and for each of get, set and value of the
\* description that holds a node index k, 0 included, the defined property
\* has there the element the index map holds for k.
DescriptorIndicesDecoded ==
  [][(/\ pc = "decoding"
      /\ Unaltered
      /\ Top.todo # <<>>
      /\ Head(Top.todo).what = "define") =>
       LET key == Head(Top.todo).key
           desc == DescriptionOf(contentArray[Top.index + 1], key)
           i == OwnPropertyIndex(heap'[Top.obj.ref], key)
           defined == heap'[Top.obj.ref].props[i]
       IN /\ pc' = "decoding"
          /\ i # 0
          /\ desc.get # -1 => defined.get = ElementAtIndex(indexMap, desc.get)
          /\ desc.set # -1 => defined.set = ElementAtIndex(indexMap, desc.set)
          /\ desc.value # -1 => defined.value = ElementAtIndex(indexMap, desc.value)]_vars

\* C19: a function record's thunk is on the index map, under the record's
\* index and only once, from the moment its get call starts; no value of the
\* graph, captured environments included, designates an implementation
\* (only the __impl of its thunk does); and once the get call of a function
\* record is over, the thunk's __impl is the implementation evaluated from
\* the record's source and every property of the record is an own property of
\* the thunk, the implementation having none but its prototype.
Implementations ==
  {heap[c].impl : c \in {d \in DOMAIN heap : heap[d].impl # Undef}}

ValuesOf(cell) ==
  {cell.proto, cell.closureRet}
  \cup {cell.elems[i] : i \in DOMAIN cell.elems}
  \cup {cell.props[i].value : i \in DOMAIN cell.props}
  \cup {cell.props[i].get : i \in DOMAIN cell.props}
  \cup {cell.props[i].set : i \in DOMAIN cell.props}
  \cup {cell.env[i].value : i \in DOMAIN cell.env}

FunctionEntries ==
  {e \in DOMAIN indexMap :
     /\ indexMap[e].index \in 0..(Len(contentArray) - 1)
     /\ contentArray[indexMap[e].index + 1].kind = "function"}

InProgress == {stack[d].index : d \in DOMAIN stack}

KeysOf(rec) ==
  {rec.refs[i].key : i \in DOMAIN rec.refs}
  \cup {rec.descriptions[i].key : i \in DOMAIN rec.descriptions}

ThunkFirst ==
  \A d \in DOMAIN stack :
    stack[d].kind = "function" =>
      /\ IsRef(stack[d].obj)
      /\ ElementAtIndex(indexMap, stack[d].index) = stack[d].obj
      /\ (stack[d].todo # <<>> /\ Head(stack[d].todo).what = "closure")
           => heap[stack[d].obj.ref] = ThunkCell

OnlyThunks ==
  /\ \A e \in FunctionEntries :
       /\ indexMap[e].element \notin Implementations
       /\ \A o \in FunctionEntries : indexMap[o].index = indexMap[e].index => o = e
  /\ \A c \in DOMAIN heap : ValuesOf(heap[c]) \cap Implementations = {}
  /\ \A i \in DOMAIN results : results[i] \notin Implementations

Patched ==
  \A e \in FunctionEntries :
    indexMap[e].index \notin InProgress =>
      LET rec == contentArray[indexMap[e].index + 1]
          thunk == heap[indexMap[e].element.ref]
      IN /\ IsRef(thunk.impl)
         /\ heap[thunk.impl.ref].kind = "function"
         /\ heap[thunk.impl.ref].source = rec.source
         /\ \A key \in KeysOf(rec) : OwnPropertyIndex(thunk, key) # 0
         /\ \A i \in DOMAIN heap[thunk.impl.ref].props :
              heap[thunk.impl.ref].props[i].key = "prototype"

ThunkIsTheFunction ==
  pc \in {"decoding", "decoded"} => ThunkFirst /\ OnlyThunks /\ Patched

\* The recursive function has been decoded: its implementation is bound to
\* its own thunk, and the thunk has the record's properties.
ThunkIsTheFunctionWitness ==
  /\ pc = "decoded"
  /\ input = Ref(To5Id)
  /\ \E e \in FunctionEntries :
       LET t == indexMap[e].element
           impl == heap[heap[t.ref].impl.ref]
       IN /\ results[Len(results)] = t
          /\ IsRef(heap[t.ref].impl)
          /\ \E i \in DOMAIN impl.env : impl.env[i] = Binding("f", t)
          /\ KeysOf(contentArray[indexMap[e].index + 1]) # {}

\* C20: add of a new function that has no __closure (and whose source is
\* neither native code nor a class) does not throw and goes on with
\* add(undefined) for the closure; in the finished document the closure of
\* such a function is the index of the record of the primitive undefined;
\* and when get(closure) of a function record returns for such a record (the
\* source being an expression), the decoder does not throw and evaluates the
\* implementation with no captured binding, over a new empty closure object.
HasNoAccessor(value) ==
  /\ IsRef(value)
  /\ KindOf(heap, value, reg) = "function"
  /\ heap[FunctionSubject(heap, value).ref].accessor = "none"

UndefinedRecord == [SerializedRecord("primitive") EXCEPT !.value = Undef, !.hasValue = TRUE]

EncodedWithoutClosure ==
  pc = "encoded" =>
    \A e \in DOMAIN indexMap :
      HasNoAccessor(indexMap[e].element) =>
        LET rec == contentArray[indexMap[e].index + 1]
        IN /\ rec.kind = "function"
           /\ rec.closure \in 0..(Len(contentArray) - 1)
           /\ contentArray[rec.closure + 1] = UndefinedRecord

AddsUndefinedClosure ==
  (/\ pc = "encoding"
   /\ Top.todo # <<>>
   /\ HasNoAccessor(Head(Top.todo).val)
   /\ IndexOfValue(indexMap, Head(Top.todo).val) = -1
   /\ ~CannotSerialize(heap, Head(Top.todo).val)) =>
     /\ pc' = "encoding"
     /\ Len(stack') = Len(stack) + 1
     /\ stack'[Len(stack')].rec.kind = "function"
     /\ Head(stack'[Len(stack')].todo) = Slot("closure", "", Undef, "")
     /\ heap' = heap

EvaluatesWithoutBindings ==
  (/\ pc = "decoding"
   /\ Top.kind = "function"
   /\ Top.todo # <<>>
   /\ Head(Top.todo).what = "closure"
   /\ InRange(Head(Top.todo).index)
   /\ contentArray[Head(Top.todo).index + 1].kind = "primitive"
   /\ PrimitiveValue(contentArray[Head(Top.todo).index + 1]) = Undef
   /\ ParsesAsExpression(contentArray[Top.index + 1].source)) =>
     LET frame == stack'[Len(stack)]
     IN /\ pc' = "decoding"
        /\ Len(stack') = Len(stack)
        /\ frame.todo = Tail(Top.todo)
        /\ IsRef(frame.impl)
        /\ heap'[frame.impl.ref].kind = "function"
        /\ heap'[frame.impl.ref].source = contentArray[Top.index + 1].source
        /\ heap'[frame.impl.ref].env = <<>>
        /\ IsRef(frame.aux)
        /\ frame.aux.ref = Len(heap) + 1
        /\ heap'[frame.aux.ref] = ObjectCell(ObjectPrototype, <<>>)

NoAccessorNoBindings ==
  /\ []EncodedWithoutClosure
  /\ [][AddsUndefinedClosure]_vars
  /\ [][EvaluatesWithoutBindings]_vars

\* The function with an own property and no __closure has made the round
\* trip: the result forwards to an implementation without bindings whose
\* __closure returns an empty object.
NoAccessorNoBindingsWitness ==
  /\ pc = "decoded"
  /\ input = Ref(TaggedFnId)
  /\ heap[TaggedFnId].accessor = "none"
  /\ LET t == results[Len(results)]
     IN /\ IsRef(t)
        /\ IsRef(heap[t.ref].impl)
        /\ heap[heap[t.ref].impl.ref].env = <<>>
        /\ heap[heap[t.ref].impl.ref].accessor = "fixed"
        /\ heap[heap[heap[t.ref].impl.ref].closureRet.ref] = ObjectCell(ObjectPrototype, <<>>)

\* C21: every serialize call starts from an empty index map and an empty
\* content array, and every deserialize call from an empty index map, and
\* decoding never writes the document's array; while a re-entrant serialize
\* call runs, the graph of the suspended call is left as it was and the
\* suspended call resumes with it; a finished outermost call has filled
\* indices 0, 1, 2, ... of its own array in the order of its own index map;
\* and the document serialize returns for a value when it is called alone is
\* the document a re-entrant call returned for the same value before.
StartsFresh ==
  /\ (pc' = "encoding" /\ (pc \in {"ready", "decoded"}
                            \/ Len(nested'.suspended) > Len(nested.suspended)))
       => /\ indexMap' = <<>>
          /\ contentArray' = <<>>
          /\ rootIndex' = -1
          /\ Len(stack') = 1
  /\ (pc # "decoding" /\ pc' = "decoding") => indexMap' = <<>>
  /\ (pc = "decoding" /\ pc' \in {"decoding", "decoded", "threw"}) => contentArray' = contentArray

SuspendedUntouched ==
  /\ Len(nested'.suspended) >= Len(nested.suspended)
       => SubSeq(nested'.suspended, 1, Len(nested.suspended)) = nested.suspended
  /\ Len(nested'.suspended) < Len(nested.suspended)
       => LET outer == nested.suspended[Len(nested.suspended)]
          IN /\ pc = "returning" /\ pc' = "encoding"
             /\ indexMap' = outer.indexMap
             /\ contentArray' = outer.contentArray
             /\ rootIndex' = outer.rootIndex
             /\ stack' = outer.stack
             /\ nested'.suspended = SubSeq(nested.suspended, 1, Len(nested.suspended) - 1)

OwnIndices ==
  pc \in {"encoded", "returning"} =>
    /\ pc = "encoded" => nested.suspended = <<>>
    /\ Len(indexMap) = Len(contentArray)
    /\ \A k \in DOMAIN indexMap : indexMap[k].index = k - 1
    /\ \A k \in DOMAIN contentArray : contentArray[k] # Reserved
    /\ rootIndex = 0

SameAsAlone ==
  pc = "encoded" =>
    \A d \in DOMAIN nested.documents :
      nested.documents[d].value = root =>
        toJSON = [root |-> nested.documents[d].root, data |-> nested.documents[d].data]

CallsAreIndependent ==
  /\ []OwnIndices
  /\ []SameAsAlone
  /\ [][StartsFresh]_vars
  /\ [][SuspendedUntouched]_vars

\* The value a closure accessor serialized during the first call has been
\* serialized again, alone, after a round trip: the two documents are one.
CallsAreIndependentWitness ==
  /\ pc = "encoded"
  /\ round = 2
  /\ input = Ref(LoggingHolderId)
  /\ root = Ref(AliasObjId)
  /\ nested.documents # <<>>
  /\ nested.documents[1].value = root
  /\ Len(nested.documents[1].data) = Len(contentArray)
  /\ Len(contentArray) > 2

\* C22: were the source file to end with the nodes visited so far, any two
\* identifiers the store holds the same variable id for have the same name
\* and belong to the same binding: the declaration of the name in the
\* innermost scope around the identifier that declares it (a var, a function
\* declaration and a loop variable are declared in their function, a let in
\* its block, a parameter and a function expression's name in the function,
\* a catch variable in the catch clause), or no declaration of the file.
BindingOf(occurrence) ==
  LET declaring == {i \in DOMAIN occurrence.path :
                      [key |-> occurrence.path[i], name |-> occurrence.name] \in visited.declared}
  IN IF declaring = {} THEN NoScope
     ELSE occurrence.path[CHOOSE i \in declaring : \A j \in declaring : j <= i]

SameIdSameBinding ==
  \A a \in DOMAIN visited.uses, b \in DOMAIN visited.uses :
    visited.uses[a].id = visited.uses[b].id =>
      /\ visited.uses[a].name = visited.uses[b].name
      /\ BindingOf(visited.uses[a]) = BindingOf(visited.uses[b])

\* C23: the id define gives to the name of a let (or const) declaration is
\* never the id pendingVariables held for that name when the declaration
\* was visited.
LetNeverCollapses ==
  [][\A id \in Ids :
       (visited.ids[id].kind # "let" /\ visited'.ids[id].kind = "let")
         => numbering.pendingVariables[visited'.ids[id].name] # id]_vars

\* C24: the captured list of a function never holds the function's own name
\* or one of its parameters; and no step of the visit of the function (its
\* body, nested functions included) adds such a name to the captured list
\* of a scope that encloses the function.
OwnNamesNotCaptured ==
  chain # <<>> =>
    \A function \in 2..Len(chain.objects) :
      \A name \in visited.functions[function].own :
        ~Contains(captured(chain.objects, function), name)

OwnNamesStayInside ==
  chain # <<>> =>
    \A function \in 2..Len(chain.objects), enclosing \in 1..Len(chain.objects) :
      (/\ Encloses(function, chain.captured)
       /\ enclosing # function
       /\ Encloses(enclosing, function)) =>
         \A name \in visited.functions[function].own :
           Contains(captured(chain'.objects, enclosing), name)
             => Contains(captured(chain.objects, enclosing), name)

OwnNamesAreLocal ==
  /\ []OwnNamesNotCaptured
  /\ [][OwnNamesStayInside]_vars

\* A function with a parameter holds a nested function that uses the
\* parameter: the nested function captures it, and neither the function
\* nor the source file does.
OwnNamesAreLocalWitness ==
  /\ chain # <<>>
  /\ Len(chain.objects) = 3
  /\ chain.objects[2].parent = 1
  /\ chain.objects[3].parent = 2
  /\ visited.functions[2].own = {"x"}
  /\ visited.functions[3].own = {}
  /\ "x" \in visited.functions[3].uses
  /\ Contains(captured(chain.objects, 3), "x")
  /\ ~Contains(captured(chain.objects, 2), "x")
  /\ ~Contains(captured(chain.objects, 1), "x")

Node(kind, text, kids) == [kind |-> kind, text |-> text, kids |-> kids]
Missing == Node("", "", <<>>)
Identifier(text) == Node("Identifier", text, <<>>)
NumericLiteral(text) == Node("NumericLiteral", text, <<>>)
PropertyAccessExpression(expression, name) == Node("PropertyAccessExpression", name, <<expression>>)
BinaryExpression(left, operator, right) == Node("BinaryExpression", operator, <<left, right>>)
Assignment(left, right) == BinaryExpression(left, "=", right)
PrefixUnaryExpression(operator, operand) == Node("PrefixUnaryExpression", operator, <<operand>>)
PostfixUnaryExpression(operand, operator) == Node("PostfixUnaryExpression", operator, <<operand>>)
CallExpression(expression, arguments) == Node("CallExpression", "", <<expression>> \o arguments)
CommaListExpression(elements) == Node("CommaListExpression", "", elements)
PropertyAssignment(name, initializer) == Node("PropertyAssignment", name, <<initializer>>)
ShorthandPropertyAssignment(name) == Node("ShorthandPropertyAssignment", name, <<Missing>>)
ObjectLiteralExpression(properties) == Node("ObjectLiteralExpression", "", properties)
FunctionExpression(body) == Node("FunctionExpression", "", <<body>>)
ArrowFunction(body) == Node("ArrowFunction", "", <<body>>)
FunctionDeclaration(name, body) == Node("FunctionDeclaration", name, <<body>>)
Block(statements) == Node("Block", "", statements)
ReturnStatement(expression) == Node("ReturnStatement", "", <<expression>>)
ExpressionStatement(expression) == Node("ExpressionStatement", "", <<expression>>)
VariableDeclaration(name, initializer) == Node("VariableDeclaration", "", <<name, initializer>>)
VariableDeclarationList(declarations) == Node("VariableDeclarationList", "", declarations)
VariableStatement(declarations) == Node("VariableStatement", "", declarations)
BindingElement(name) == Node("BindingElement", "", <<name>>)
OmittedExpression == Node("OmittedExpression", "", <<>>)
ArrayBindingPattern(elements) == Node("ArrayBindingPattern", "", elements)
ObjectBindingPattern(elements) == Node("ObjectBindingPattern", "", elements)
ForStatement(initializer, condition, incrementor, statement) ==
  Node("ForStatement", "", <<initializer, condition, incrementor, statement>>)

\* simplify.ts: the compound assignment tokens and the operators they apply.
noAssignmentTokenMapping ==
  [operator \in {"+=", "-=", "*="} |->
     CASE operator = "+=" -> "+" [] operator = "-=" -> "-" [] operator = "*=" -> "*"]
assignmentTokenMapping ==
  [operator \in {"+", "-", "*"} |->
     CASE operator = "+" -> "+=" [] operator = "-" -> "-=" [] operator = "*" -> "*="]

\* areEqual(left, right), for two nodes that are not the same object.
RECURSIVE areEqual(_, _)
areEqual(left, right) ==
  IF left.kind = "Identifier" /\ right.kind = "Identifier"
  THEN left.text # "" /\ left.text = right.text
  ELSE IF left.kind = "PropertyAccessExpression" /\ right.kind = "PropertyAccessExpression"
  THEN left.text = right.text /\ areEqual(left.kids[1], right.kids[1])
  ELSE FALSE

\* simplify(node): a = a <op> b becomes a <op>= b, a += 1 becomes ++a and
\* a -= 1 becomes --a.
RECURSIVE simplify(_)
simplify(node) ==
  IF node.kind # "BinaryExpression" THEN node
  ELSE LET left == node.kids[1]
           right == node.kids[2]
       IN IF /\ right.kind = "BinaryExpression"
             /\ right.text \in DOMAIN assignmentTokenMapping
             /\ areEqual(left, right.kids[1])
          THEN simplify(BinaryExpression(left, assignmentTokenMapping[right.text], right.kids[2]))
          ELSE IF right.kind = "NumericLiteral" /\ right.text = "1"
          THEN IF node.text = "+=" THEN PrefixUnaryExpression("++", left)
               ELSE IF node.text = "-=" THEN PrefixUnaryExpression("--", left)
               ELSE node
          ELSE node

\* The three hooks of VariableBoxingVisitor.  boxVisitAssignment is the
\* function visitAssignment returns, applied; IsBoxed tells whether it
\* returns one.
IsBoxed(name, variablesToBox) == name.text \in variablesToBox
ContainerLiteral == ObjectLiteralExpression(<<PropertyAssignment("value", Identifier("undefined"))>>)
boxVisitUse(node, variablesToBox) ==
  IF IsBoxed(node, variablesToBox) THEN PropertyAccessExpression(node, "value") ELSE node
boxVisitDef(node, variablesToBox) ==
  IF IsBoxed(node, variablesToBox) THEN ContainerLiteral ELSE Missing
boxVisitAssignment(name, assignment) ==
  BinaryExpression(PropertyAccessExpression(name, "value"), assignment.text, assignment.kids[2])

\* createTemporary(): a unique name; one is made for a name at most once
\* in a statement.
createTemporary(name) == Identifier("_tct_variable_visitor_" \o name.text)

\* Array.prototype.push(...) of every list of a list of lists.
RECURSIVE Flatten(_)
Flatten(lists) == IF lists = <<>> THEN <<>> ELSE Head(lists) \o Flatten(Tail(lists))

\* visitBinding of visitVariableStatement: the name that replaces a binding
\* name, the fix-up statements pushed, and the names visitDef was called on.
RECURSIVE visitBinding(_, _)
visitBinding(name, variablesToBox) ==
  IF name.kind = "Identifier"
  THEN IF IsBoxed(name, variablesToBox)
       THEN LET temp == createTemporary(name)
            IN [name |-> temp,
                fixups |-> <<VariableStatement(<<VariableDeclaration(name, boxVisitDef(name, variablesToBox))>>),
                             ExpressionStatement(boxVisitAssignment(name, Assignment(name, temp)))>>,
                defs |-> <<name.text>>]
       ELSE [name |-> name, fixups |-> <<>>, defs |-> <<name.text>>]
  ELSE IF name.kind = "ArrayBindingPattern"
  THEN \* the return statement is inside the loop over the elements
       IF name.kids = <<>> THEN [name |-> Missing, fixups |-> <<>>, defs |-> <<>>]
       ELSE LET elem == name.kids[1]
            IN IF elem.kind = "OmittedExpression"
               THEN [name |-> ArrayBindingPattern(<<elem>>), fixups |-> <<>>, defs |-> <<>>]
               ELSE LET first == visitBinding(elem.kids[1], variablesToBox)
                    IN [first EXCEPT !.name = ArrayBindingPattern(<<BindingElement(first.name)>>)]
  ELSE LET elements == [i \in 1..Len(name.kids) |-> visitBinding(name.kids[i].kids[1], variablesToBox)]
       IN [name |-> ObjectBindingPattern([i \in 1..Len(elements) |-> BindingElement(elements[i].name)]),
           fixups |-> Flatten([i \in 1..Len(elements) |-> elements[i].fixups]),
           defs |-> Flatten([i \in 1..Len(elements) |-> elements[i].defs])]

\* flushDeclarations of visitVariableStatement: the statement it pushes.
flushDeclarations(declarations) ==
  IF declarations = <<>> THEN <<>> ELSE <<VariableStatement(declarations)>>

\* VariableVisitor.visit and the methods it dispatches to.  visit returns
\* the list of the nodes that replace the node; parent is the kind of
\* node.parent.
RECURSIVE visit(_, _, _)
RECURSIVE visitDeclarations(_, _, _, _)

visitExpression(node, parent, variablesToBox) == visit(node, parent, variablesToBox)[1]

visitStatement(node, parent, variablesToBox) ==
  LET result == visit(node, parent, variablesToBox)
  IN IF Len(result) = 1 THEN result[1] ELSE Block(result)

visitChildren(node, variablesToBox) ==
  Node(node.kind, node.text,
       Flatten([i \in 1..Len(node.kids) |-> visit(node.kids[i], node.kind, variablesToBox)]))

visitBlock(block, variablesToBox) ==
  Block(Flatten([i \in 1..Len(block.kids) |-> visit(block.kids[i], "Block", variablesToBox)]))

visitBinaryExpressionNode(node, variablesToBox) ==
  LET lhs == node.kids[1]
      right == node.kids[2]
  IN IF lhs.kind # "Identifier" THEN visitChildren(node, variablesToBox)
     ELSE IF node.text = "="
     THEN LET assignment == Assignment(lhs, visitExpression(right, node.kind, variablesToBox))
          IN IF IsBoxed(lhs, variablesToBox) THEN boxVisitAssignment(lhs, assignment) ELSE assignment
     ELSE IF node.text \in DOMAIN noAssignmentTokenMapping
     THEN IF IsBoxed(lhs, variablesToBox)
          THEN boxVisitAssignment(lhs,
                 Assignment(lhs,
                   BinaryExpression(boxVisitUse(lhs, variablesToBox),
                                    node.text,
                                    visitExpression(right, node.kind, variablesToBox))))
          ELSE BinaryExpression(lhs, node.text, visitExpression(right, node.kind, variablesToBox))
     ELSE visitChildren(node, variablesToBox)

visitPreUpdateExpression(expression, variablesToBox) ==
  LET operand == expression.kids[1]
  IN IF operand.kind # "Identifier" THEN visitChildren(expression, variablesToBox)
     ELSE IF IsBoxed(operand, variablesToBox)
     THEN LET firstUse == boxVisitUse(operand, variablesToBox)
              value == BinaryExpression(firstUse, IF expression.text = "++" THEN "+" ELSE "-",
                                        NumericLiteral("1"))
          IN simplify(boxVisitAssignment(operand, Assignment(operand, value)))
     ELSE expression

visitPostUpdateExpression(expression, parent, variablesToBox) ==
  LET operand == expression.kids[1]
  IN IF operand.kind # "Identifier" THEN visitChildren(expression, variablesToBox)
     ELSE IF IsBoxed(operand, variablesToBox)
     THEN LET secondUse == boxVisitUse(operand, variablesToBox)
              value == BinaryExpression(secondUse, IF expression.text = "++" THEN "+" ELSE "-",
                                        NumericLiteral("1"))
              update == simplify(boxVisitAssignment(operand, Assignment(operand, value)))
          IN IF parent \in {"ExpressionStatement", "ForStatement"}
             THEN update
             ELSE LET temp == createTemporary(operand)
                      firstUse == boxVisitUse(operand, variablesToBox)
                  IN CommaListExpression(<<Assignment(temp, firstUse), update, temp>>)
     ELSE expression

\* The body of the loop of visitVariableStatement over the declarations:
\* the declaration pushed, the fix-up statements and the visitDef calls.
visitDeclaration(decl, variablesToBox) ==
  LET name == decl.kids[1]
      initializer == visitExpression(decl.kids[2], decl.kind, variablesToBox)
  IN IF name.kind = "Identifier"
     THEN LET customInit == boxVisitDef(name, variablesToBox)
              rewrite == initializer # Missing /\ IsBoxed(name, variablesToBox)
              fixups1 == IF rewrite
                         THEN <<ExpressionStatement(boxVisitAssignment(name, Assignment(name, initializer)))>>
                         ELSE <<>>
              initializer1 == IF rewrite THEN Missing ELSE initializer
              fixups2 == IF customInit # Missing /\ initializer1 # Missing
                         THEN Append(fixups1, ExpressionStatement(Assignment(name, initializer1)))
                         ELSE fixups1
              initializer2 == IF customInit # Missing THEN customInit ELSE initializer1
          IN [declaration |-> VariableDeclaration(name, initializer2),
              fixups |-> fixups2, defs |-> <<name.text>>]
     ELSE LET binding == visitBinding(name, variablesToBox)
          IN [declaration |-> VariableDeclaration(binding.name, initializer),
              fixups |-> binding.fixups, defs |-> binding.defs]

visitDeclarations(decls, statements, declarations, variablesToBox) ==
  IF decls = <<>> THEN statements \o flushDeclarations(declarations)
  ELSE LET result == visitDeclaration(Head(decls), variablesToBox)
           pushed == Append(declarations, result.declaration)
       IN IF result.fixups # <<>>
          THEN visitDeclarations(Tail(decls),
                                 statements \o flushDeclarations(pushed) \o result.fixups,
                                 <<>>, variablesToBox)
          ELSE visitDeclarations(Tail(decls), statements, pushed, variablesToBox)

visitVariableStatementNode(statement, variablesToBox) ==
  visitDeclarations(statement.kids, <<>>, <<>>, variablesToBox)

visitForStatementNode(statement, variablesToBox) ==
  LET initializer == statement.kids[1]
  IN IF initializer.kind = "VariableDeclarationList"
     THEN LET declared == visitStatement(VariableStatement(initializer.kids), "", variablesToBox)
              condition == visitExpression(statement.kids[2], statement.kind, variablesToBox)
              incrementor == visitExpression(statement.kids[3], statement.kind, variablesToBox)
              body == visitStatement(statement.kids[4], statement.kind, variablesToBox)
          IN IF declared.kind = "VariableStatement"
             THEN ForStatement(VariableDeclarationList(declared.kids), condition, incrementor, body)
             ELSE Block(<<declared, ForStatement(Missing, condition, incrementor, body)>>)
     ELSE visitChildren(statement, variablesToBox)

visitFunctionDeclarationNode(node, variablesToBox) ==
  LET name == Identifier(node.text)
      body == visitBlock(node.kids[1], variablesToBox)
  IN IF IsBoxed(name, variablesToBox)
     THEN <<VariableStatement(<<VariableDeclaration(name, boxVisitDef(name, variablesToBox))>>),
            ExpressionStatement(boxVisitAssignment(name, Assignment(name, FunctionExpression(body))))>>
     ELSE <<FunctionDeclaration(node.text, body)>>

visit(node, parent, variablesToBox) ==
  CASE node = Missing -> <<Missing>>
    [] node.kind = "Identifier" ->
         IF node.text \notin {"undefined", "null", "arguments"}
         THEN <<boxVisitUse(node, variablesToBox)>>
         ELSE <<node>>
    [] node.kind = "PropertyAccessExpression" ->
         <<PropertyAccessExpression(visitExpression(node.kids[1], node.kind, variablesToBox), node.text)>>
    [] node.kind = "PropertyAssignment" ->
         <<PropertyAssignment(node.text, visitExpression(node.kids[1], node.kind, variablesToBox))>>
    [] node.kind = "ShorthandPropertyAssignment" ->
         <<Node(node.kind, node.text, <<visitExpression(node.kids[1], node.kind, variablesToBox)>>)>>
    [] node.kind = "BinaryExpression" -> <<visitBinaryExpressionNode(node, variablesToBox)>>
    [] node.kind = "PrefixUnaryExpression" /\ node.text \in {"++", "--"} ->
         <<visitPreUpdateExpression(node, variablesToBox)>>
    [] node.kind = "PostfixUnaryExpression" /\ node.text \in {"++", "--"} ->
         <<visitPostUpdateExpression(node, parent, variablesToBox)>>
    [] node.kind = "VariableStatement" -> visitVariableStatementNode(node, variablesToBox)
    [] node.kind = "ForStatement" -> <<visitForStatementNode(node, variablesToBox)>>
    [] node.kind = "ArrowFunction" ->
         <<ArrowFunction(visitExpression(node.kids[1], node.kind, variablesToBox))>>
    [] node.kind = "FunctionExpression" ->
         <<FunctionExpression(visitBlock(node.kids[1], variablesToBox))>>
    [] node.kind = "FunctionDeclaration" -> visitFunctionDeclarationNode(node, variablesToBox)
    [] OTHER -> <<visitChildren(node, variablesToBox)>>

(***************************************************************************)
(* What a statement does when it runs.  An environment holds the value of  *)
(* every variable, the value field of the container of every boxed         *)
(* variable, the number of calls of the function f, the values that were   *)
(* passed to f or stored in an object literal, the number of writes to a   *)
(* variable of the file or to a value field, and the number of times the   *)
(* body of a loop ran.  A loop is cut off after MaxIterations rounds.      *)
(***************************************************************************)
MaxIterations == 3      \* rounds of a for loop
MaxStatements == 2      \* statements of a source file the rewriter visits

Boxable == {"x", "b"}
Variables == {"x", "y", "a", "b"} \cup {createTemporary(Identifier(name)).text : name \in Boxable}
ContainerOf(name) == [ty |-> "ref", n |-> 0, s |-> name, ref |-> 0]
FunctionValue == [ty |-> "ref", n |-> 0, s |-> "function", ref |-> 0]
ObjectValue == [ty |-> "ref", n |-> 0, s |-> "object", ref |-> 0]
CallResult == Num(2)

IsNumber(v) == v.ty = "number" /\ v.s = ""
LiteralValue(text) == CASE text = "0" -> 0 [] text = "1" -> 1 [] text = "2" -> 2
Arith(operator, a, b) ==
  IF ~(IsNumber(a) /\ IsNumber(b)) THEN NaNValue
  ELSE CASE operator \in {"+", "+="} -> Num(a.n + b.n)
         [] operator \in {"-", "-="} -> Num(a.n - b.n)
         [] operator \in {"*", "*="} -> Num(a.n * b.n)
         [] operator = "<" -> Bool(a.n < b.n)

RECURSIVE Eval(_, _)
RECURSIVE EvalList(_, _)
RECURSIVE Loop(_, _, _)

\* The assignment of v to an identifier or to the value field of what an
\* identifier holds.
Write(target, v, env) ==
  IF target.kind = "Identifier"
  THEN [env EXCEPT !.vars[target.text] = v,
                   !.writes = IF target.text \in {"x", "y"} THEN @ + 1 ELSE @]
  ELSE LET object == Eval(target.kids[1], env).v
       IN IF object.ty = "ref" /\ object.s \in Variables
          THEN [env EXCEPT !.value[object.s] = v, !.writes = @ + 1]
          ELSE env

\* The nodes of a list run in order: the value of the last and the values of all.
EvalList(nodes, env) ==
  IF nodes = <<>> THEN [v |-> Undef, all |-> <<>>, env |-> env]
  ELSE LET first == Eval(Head(nodes), env)
           rest == EvalList(Tail(nodes), first.env)
       IN [v |-> IF Tail(nodes) = <<>> THEN first.v ELSE rest.v,
           all |-> <<first.v>> \o rest.all,
           env |-> rest.env]

Loop(statement, env, rounds) ==
  LET condition == Eval(statement.kids[2], env)
  IN IF statement.kids[2] # Missing /\ ~Truthy(condition.v) THEN condition.env
     ELSE IF rounds = 0 THEN [condition.env EXCEPT !.iterations = MaxIterations + 1]
     ELSE LET body == Eval(statement.kids[4], condition.env)
              incrementor == Eval(statement.kids[3], body.env)
          IN Loop(statement, [incrementor.env EXCEPT !.iterations = @ + 1], rounds - 1)

Eval(node, env) ==
  CASE node = Missing -> [v |-> Undef, env |-> env]
    [] node.kind = "NumericLiteral" -> [v |-> Num(LiteralValue(node.text)), env |-> env]
    [] node.kind = "Identifier" ->
         [v |-> IF node.text \in Variables THEN env.vars[node.text] ELSE Undef, env |-> env]
    [] node.kind = "PropertyAccessExpression" ->
         LET object == Eval(node.kids[1], env)
         IN [v |-> IF object.v.ty = "ref" /\ object.v.s \in Variables
                   THEN object.env.value[object.v.s] ELSE Undef,
             env |-> object.env]
    [] node.kind = "BinaryExpression" /\ node.text = "=" ->
         LET right == Eval(node.kids[2], env)
         IN [v |-> right.v, env |-> Write(node.kids[1], right.v, right.env)]
    [] node.kind = "BinaryExpression" /\ node.text \in DOMAIN noAssignmentTokenMapping ->
         LET old == Eval(node.kids[1], env)
             right == Eval(node.kids[2], old.env)
             new == Arith(node.text, old.v, right.v)
         IN [v |-> new, env |-> Write(node.kids[1], new, right.env)]
    [] node.kind = "BinaryExpression" ->
         LET left == Eval(node.kids[1], env)
             right == Eval(node.kids[2], left.env)
         IN [v |-> Arith(node.text, left.v, right.v), env |-> right.env]
    [] node.kind \in {"PrefixUnaryExpression", "PostfixUnaryExpression"} ->
         LET old == Eval(node.kids[1], env)
             new == Arith(IF node.text = "++" THEN "+" ELSE "-", old.v, Num(1))
         IN [v |-> IF node.kind = "PrefixUnaryExpression" \/ ~IsNumber(old.v) THEN new ELSE old.v,
             env |-> Write(node.kids[1], new, old.env)]
    [] node.kind = "CommaListExpression" ->
         LET elements == EvalList(node.kids, env) IN [v |-> elements.v, env |-> elements.env]
    [] node.kind = "CallExpression" ->
         LET arguments == EvalList(Tail(node.kids), env)
         IN [v |-> CallResult,
             env |-> [arguments.env EXCEPT !.calls = @ + 1, !.passed = @ \o arguments.all]]
    [] node.kind = "ObjectLiteralExpression" ->
         LET properties == EvalList(node.kids, env)
         IN [v |-> ObjectValue, env |-> [properties.env EXCEPT !.passed = @ \o properties.all]]
    [] node.kind = "PropertyAssignment" -> Eval(node.kids[1], env)
    [] node.kind = "ShorthandPropertyAssignment" -> [v |-> env.vars[node.text], env |-> env]
    [] node.kind \in {"FunctionExpression", "ArrowFunction"} -> [v |-> FunctionValue, env |-> env]
    [] node.kind = "ExpressionStatement" -> [v |-> Undef, env |-> Eval(node.kids[1], env).env]
    [] node.kind \in {"Block", "VariableStatement", "VariableDeclarationList"} ->
         [v |-> Undef, env |-> EvalList(node.kids, env).env]
    [] node.kind = "VariableDeclaration" /\ node.kids[1].kind = "Identifier" ->
         IF node.kids[2] = Missing THEN [v |-> Undef, env |-> env]
         ELSE IF node.kids[2] = ContainerLiteral
         THEN [v |-> Undef,
               env |-> [env EXCEPT !.vars[node.kids[1].text] = ContainerOf(node.kids[1].text),
                                   !.value[node.kids[1].text] = Undef]]
         ELSE LET initializer == Eval(node.kids[2], env)
              IN [v |-> Undef, env |-> Write(node.kids[1], initializer.v, initializer.env)]
    [] node.kind = "ForStatement" ->
         [v |-> Undef, env |-> Loop(node, Eval(node.kids[1], env).env, MaxIterations)]
    [] OTHER -> [v |-> Undef, env |-> env]

\* The environment a file starts in, and the one its rewritten form starts
\* in: every boxed variable holds its container, whose value field holds
\* what the variable held.
NoEffects(held, fields) ==
  [vars |-> held, value |-> fields, calls |-> 0, passed |-> <<>>, writes |-> 0, iterations |-> 0]
Boxed(env, variablesToBox) ==
  NoEffects([name \in Variables |-> IF name \in variablesToBox THEN ContainerOf(name) ELSE env.vars[name]],
            [name \in Variables |-> IF name \in variablesToBox THEN env.vars[name] ELSE Undef])
\* What a variable holds, whether it is boxed or not.
Held(env, name) ==
  IF env.vars[name] = ContainerOf(name) THEN env.value[name] ELSE env.vars[name]

(***************************************************************************)
(* The rewriter at work.  An action is rewriter.visit(node) for one        *)
(* statement of the source file, drawn from the forms below; the statement *)
(* is then run in the environment of the file, and what replaced it in the *)
(* boxed form of the same environment.                                     *)
(***************************************************************************)
X == Identifier("x")
Y == Identifier("y")
F == Identifier("f")
Operands == {NumericLiteral("1"), NumericLiteral("2"), CallExpression(F, <<>>)}
UpdateOperators == {"=", "+=", "-=", "*=", "++", "--"}
Positions == {"statement", "operand", "argument", "for initializer", "for condition",
              "for incrementor"}

\* x <operator> e, or the prefix or postfix update of x.
Update(operator, prefix, e) ==
  IF operator \in {"++", "--"}
  THEN IF prefix THEN PrefixUnaryExpression(operator, X) ELSE PostfixUnaryExpression(X, operator)
  ELSE BinaryExpression(X, operator, e)

InPosition(expression, position) ==
  CASE position = "statement" -> ExpressionStatement(expression)
    [] position = "operand" -> ExpressionStatement(Assignment(Y, expression))
    [] position = "argument" -> ExpressionStatement(CallExpression(F, <<expression>>))
    [] position = "for initializer" ->
         ForStatement(expression, NumericLiteral("0"), Missing, Block(<<>>))
    [] position = "for condition" -> ForStatement(Missing, expression, Missing, Block(<<>>))
    [] position = "for incrementor" ->
         ForStatement(Missing, BinaryExpression(X, "<", NumericLiteral("2")), expression, Block(<<>>))

\* Statements that read or write x without declaring it.
Uses ==
  {ExpressionStatement(Assignment(Y, BinaryExpression(X, "+", NumericLiteral("1")))),
   ExpressionStatement(CallExpression(F, <<X>>)),
   ExpressionStatement(CallExpression(F, <<ObjectLiteralExpression(<<PropertyAssignment("p", X)>>)>>)),
   ExpressionStatement(CallExpression(F, <<ObjectLiteralExpression(<<ShorthandPropertyAssignment("x")>>)>>)),
   ExpressionStatement(Assignment(Y, FunctionExpression(Block(<<ReturnStatement(X)>>)))),
   ExpressionStatement(Assignment(Y, FunctionExpression(Block(<<ExpressionStatement(
                                       Assignment(X, NumericLiteral("1")))>>)))),
   ExpressionStatement(Assignment(Y, ArrowFunction(X)))}

\* Declarations of x, alone or after one of y, and a loop that declares x.
Declarations ==
  {VariableStatement(<<VariableDeclaration(X, Missing)>>),
   VariableStatement(<<VariableDeclaration(X, NumericLiteral("1"))>>),
   VariableStatement(<<VariableDeclaration(Y, NumericLiteral("2")), VariableDeclaration(X, Y)>>),
   FunctionDeclaration("x", Block(<<ReturnStatement(X)>>)),
   ForStatement(VariableDeclarationList(<<VariableDeclaration(X, NumericLiteral("0"))>>),
                BinaryExpression(X, "<", NumericLiteral("2")),
                PostfixUnaryExpression(X, "++"), Block(<<>>))}

\* Binding patterns over the names a and b, nested one deep at most.
A == BindingElement(Identifier("a"))
B == BindingElement(Identifier("b"))
FlatPatterns ==
  {ArrayBindingPattern(<<>>), ArrayBindingPattern(<<A>>), ArrayBindingPattern(<<A, B>>),
   ArrayBindingPattern(<<OmittedExpression, B>>),
   ObjectBindingPattern(<<>>), ObjectBindingPattern(<<A>>), ObjectBindingPattern(<<A, B>>)}
Patterns ==
  FlatPatterns \cup
  {ObjectBindingPattern(<<A, BindingElement(ArrayBindingPattern(<<B>>))>>),
   ObjectBindingPattern(<<BindingElement(ObjectBindingPattern(<<A, B>>))>>),
   ArrayBindingPattern(<<BindingElement(ObjectBindingPattern(<<A, B>>))>>),
   ArrayBindingPattern(<<BindingElement(ArrayBindingPattern(<<A>>)), B>>)}

NoRun == NoEffects([name \in Variables |-> Undef], [name \in Variables |-> Undef])

\* new VariableBoxingVisitor(ctx, store, variablesToBox), before it visits
\* the source file.
BoxingInit ==
  /\ heap = <<>> /\ input = Undef /\ root = Undef /\ reg = DefaultRegistries
  /\ viaJSON = FALSE /\ pc = "ready" /\ round = 0 /\ indexMap = <<>>
  /\ contentArray = <<>> /\ rootIndex = -1 /\ stack = <<>> /\ results = <<>>
  /\ error = "" /\ increments = [before |-> 0, original |-> 0, decoded |-> 0]
  /\ called = <<>> /\ nested = NoNested
  /\ NoPass
  /\ pipeline = <<>> /\ expanded = <<>>
  /\ \E variablesToBox \in SUBSET Boxable, x \in 0..2 :
       boxing = [variablesToBox |-> variablesToBox, statements |-> 0,
                 form |-> "", position |-> "", node |-> Missing, output |-> <<>>,
                 defs |-> <<>>,
                 env |-> [name \in Variables |->
                            IF name = "x" THEN Num(x) ELSE IF name = "y" THEN Num(1) ELSE Undef],
                 ran |-> [original |-> NoRun, rewritten |-> NoRun]]

\* rewriter.visit(statement), and the two runs.
Rewritten(form, position, statement, defs) ==
  LET output == visit(statement, "SourceFile", boxing.variablesToBox)
      start == NoEffects(boxing.env, [name \in Variables |-> Undef])
      original == Eval(statement, start).env
      rewritten == Eval(Block(output), Boxed(start, boxing.variablesToBox)).env
  IN [boxing EXCEPT !.statements = @ + 1, !.form = form, !.position = position,
                    !.node = statement, !.output = output, !.defs = defs,
                    !.env = original.vars,
                    !.ran = [original |-> original, rewritten |-> rewritten]]

VisitUpdate ==
  /\ boxing.statements < MaxStatements
  /\ \E operator \in UpdateOperators, prefix \in BOOLEAN, e \in Operands, position \in Positions :
       boxing' = Rewritten("update", position, InPosition(Update(operator, prefix, e), position), <<>>)
  /\ UNCHANGED <<graphVars, passVars, pipeline, expanded>>

VisitUse ==
  /\ boxing.statements < MaxStatements
  /\ \E statement \in Uses : boxing' = Rewritten("use", "", statement, <<>>)
  /\ UNCHANGED <<graphVars, passVars, pipeline, expanded>>

VisitDeclarationOfX ==
  /\ boxing.statements < MaxStatements
  /\ \E statement \in Declarations : boxing' = Rewritten("declaration", "", statement, <<>>)
  /\ UNCHANGED <<graphVars, passVars, pipeline, expanded>>

VisitPattern ==
  /\ boxing.statements < MaxStatements
  /\ \E pattern \in Patterns :
       boxing' = Rewritten("pattern", "", VariableStatement(<<VariableDeclaration(pattern, Y)>>),
                           visitBinding(pattern, boxing.variablesToBox).defs)
  /\ UNCHANGED <<graphVars, passVars, pipeline, expanded>>

BoxingNext ==
  \/ VisitUpdate
  \/ VisitUse
  \/ VisitDeclarationOfX
  \/ VisitPattern

BoxingSpec == BoxingInit /\ [][BoxingNext]_vars

\* C26: in what the rewriter emits, no identifier of a boxed variable stands
\* anywhere but in front of .value, or as the name of a declaration that is
\* initialised with { value: undefined }; a shorthand property of the name
\* of a boxed variable is a read of the variable.
RECURSIVE BareIn(_, _)
BareIn(node, variablesToBox) ==
  CASE node.kind = "Identifier" -> node.text \in variablesToBox
    [] node.kind = "ShorthandPropertyAssignment" -> node.text \in variablesToBox
    [] node.kind = "PropertyAccessExpression" /\ node.text = "value"
         /\ node.kids[1].kind = "Identifier" -> FALSE
    [] node.kind = "VariableDeclaration" /\ node.kids[1].kind = "Identifier"
         /\ node.kids[1].text \in variablesToBox -> node.kids[2] # ContainerLiteral
    [] OTHER -> \E i \in 1..Len(node.kids) : BareIn(node.kids[i], variablesToBox)

NoBareOccurrence ==
  boxing # <<>> =>
    \A i \in 1..Len(boxing.output) : ~BareIn(boxing.output[i], boxing.variablesToBox)

\* C27: when the declaration of a binding pattern is rewritten, visitDef
\* was called once for each identifier the pattern binds, and the pattern
\* that replaces it has the same elements at the same places, down to the
\* identifiers.
RECURSIVE BoundNames(_)
BoundNames(name) ==
  IF name.kind = "Identifier" THEN <<name.text>>
  ELSE IF name.kind \in {"ArrayBindingPattern", "ObjectBindingPattern"}
  THEN Flatten([i \in 1..Len(name.kids) |-> BoundNames(name.kids[i])])
  ELSE IF name.kind = "BindingElement" THEN BoundNames(name.kids[1])
  ELSE <<>>

RECURSIVE SameShape(_, _)
SameShape(original, rewritten) ==
  /\ original.kind = rewritten.kind
  /\ Len(original.kids) = Len(rewritten.kids)
  /\ \A i \in 1..Len(original.kids) : SameShape(original.kids[i], rewritten.kids[i])

PatternKeepsItsNames ==
  (boxing # <<>> /\ boxing.form = "pattern") =>
    LET pattern == boxing.node.kids[1].kids[1]
        replaced == boxing.output[1].kids[1].kids[1]
    IN /\ boxing.defs = BoundNames(pattern)
       /\ SameShape(pattern, replaced)

\* C28: the rewritten form of an update of the boxed variable x leaves
\* what x holds, what y holds and what f was given as the update does,
\* calls f as often and writes as often; an update that is not in a loop
\* calls f once at most and writes the value field once.
Agrees(original, rewritten) ==
  /\ Held(rewritten, "x") = Held(original, "x")
  /\ Held(rewritten, "y") = Held(original, "y")
  /\ rewritten.passed = original.passed
  /\ rewritten.calls = original.calls
  /\ rewritten.writes = original.writes
  /\ rewritten.iterations = original.iterations

WritesOfY(position) == IF position = "operand" THEN 1 ELSE 0

UpdateAgrees ==
  (boxing # <<>> /\ boxing.form = "update" /\ "x" \in boxing.variablesToBox) =>
    /\ Agrees(boxing.ran.original, boxing.ran.rewritten)
    /\ boxing.position \in {"statement", "operand", "argument", "for initializer"} =>
         /\ boxing.ran.rewritten.calls <= (IF boxing.position = "argument" THEN 2 ELSE 1)
         /\ boxing.ran.rewritten.writes = 1 + WritesOfY(boxing.position)

(***************************************************************************)
(* The transform pipeline of index.ts.  A source file is the list of the   *)
(* transformers that were applied to it, in the order they were applied;   *)
(* "typescript" stands for the compiler's own transformers, which run      *)
(* after the before-stage and before the after-stage.  The compiler hands  *)
(* the files of a program to a stage one at a time, in any order.          *)
(***************************************************************************)
MaxFiles == 3           \* source files of a program

Files == 1..MaxFiles
NoFile == MaxFiles + 1  \* no file of the program

\* createPipeline(transforms): the transformers in the order the loop of
\* the pipeline applies them (a list of one is that transformer itself).
createPipelineReversed(transforms) ==
  [i \in 1..Len(transforms) |-> transforms[Len(transforms) + 1 - i]]
createPipeline(transforms) == transforms

beforeTransform == <<"flattenImports">>
afterTransform ==
  createPipeline(<<"hoistFunctions", "boxMutableSharedVariables", "closureTransform">>)

\* elem(result): the source file a transformer returns.
Transformed(elem, sf) == Append(sf, elem)
\* A call of a transformer, with the source file it was given.
TransformerCall(stage, elem, sf) == [stage |-> stage, elem |-> elem, received |-> sf]

PipelineInit ==
  /\ heap = <<>> /\ input = Undef /\ root = Undef /\ reg = DefaultRegistries
  /\ viaJSON = FALSE /\ pc = "ready" /\ round = 0 /\ indexMap = <<>>
  /\ contentArray = <<>> /\ rootIndex = -1 /\ stack = <<>> /\ results = <<>>
  /\ error = "" /\ increments = [before |-> 0, original |-> 0, decoded |-> 0]
  /\ called = <<>> /\ nested = NoNested
  /\ NoPass
  /\ boxing = <<>> /\ expanded = <<>>
  /\ pipeline = [sources |-> [f \in Files |-> <<>>],
                 calls |-> [f \in Files |-> <<>>],
                 emitted |-> {},
                 running |-> NoFile, elems |-> <<>>, result |-> <<>>]

\* The transformer beforeTransform() returns, called on a source file.
BeforeTransform ==
  /\ pipeline.running = NoFile
  /\ \E f \in Files :
       /\ pipeline.sources[f] = <<>>
       /\ pipeline' = [pipeline EXCEPT
            !.sources[f] = Transformed(beforeTransform[1], @),
            !.calls[f] = Append(@, TransformerCall("before", beforeTransform[1], pipeline.sources[f]))]
  /\ UNCHANGED <<graphVars, passVars, boxing, expanded>>

\* The compiler's transformers, between the two stages.
CompilerTransform ==
  /\ pipeline.running = NoFile
  /\ \E f \in Files :
       /\ f \notin pipeline.emitted
       /\ \A i \in 1..Len(pipeline.sources[f]) : pipeline.sources[f][i] # "typescript"
       /\ pipeline' = [pipeline EXCEPT !.sources[f] = Transformed("typescript", @)]
  /\ UNCHANGED <<graphVars, passVars, boxing, expanded>>

\* The transformer afterTransform() returns, called on a source file, up to
\* the loop: result = node.
AfterTransform ==
  /\ pipeline.running = NoFile
  /\ \E f \in Files :
       /\ f \notin pipeline.emitted
       /\ pipeline.sources[f] # <<>>
       /\ pipeline.sources[f][Len(pipeline.sources[f])] = "typescript"
       /\ pipeline' = [pipeline EXCEPT !.running = f, !.elems = afterTransform,
                                       !.result = pipeline.sources[f]]
  /\ UNCHANGED <<graphVars, passVars, boxing, expanded>>

\* One round of the loop: result = elem(result).
PipelineElem ==
  /\ pipeline.running # NoFile
  /\ pipeline.elems # <<>>
  /\ pipeline' = [pipeline EXCEPT
       !.result = Transformed(Head(pipeline.elems), @),
       !.elems = Tail(@),
       !.calls[pipeline.running] = Append(@, TransformerCall("after", Head(pipeline.elems), pipeline.result))]
  /\ UNCHANGED <<graphVars, passVars, boxing, expanded>>

\* return result
PipelineReturn ==
  /\ pipeline.running # NoFile
  /\ pipeline.elems = <<>>
  /\ pipeline' = [pipeline EXCEPT !.sources[pipeline.running] = pipeline.result,
                                  !.emitted = @ \cup {pipeline.running},
                                  !.running = NoFile, !.result = <<>>]
  /\ UNCHANGED <<graphVars, passVars, boxing, expanded>>

PipelineNext ==
  \/ BeforeTransform
  \/ CompilerTransform
  \/ AfterTransform
  \/ PipelineElem
  \/ PipelineReturn

PipelineSpec == PipelineInit /\ [][PipelineNext]_vars

\* C29: for every source file, the transformers the after-stage called are
\* function hoisting, boxing and closure capture, in this order and none
\* twice; each but the first was given what the one before it returned, the
\* first what the stage was given, and the stage returns what the last
\* returned; the before-stage called import flattening and nothing else.
CallsOf(f, stage) == SelectSeq(pipeline.calls[f], LAMBDA call : call.stage = stage)
AfterStageOrder == <<"hoistFunctions", "boxMutableSharedVariables", "closureTransform">>

StagesInOrder ==
  pipeline # <<>> =>
    \A f \in Files :
      LET after == CallsOf(f, "after")
          before == CallsOf(f, "before")
      IN /\ Len(after) <= Len(AfterStageOrder)
         /\ \A i \in 1..Len(after) :
              /\ after[i].elem = AfterStageOrder[i]
              /\ i > 1 => after[i].received = Transformed(after[i - 1].elem, after[i - 1].received)
         /\ f \in pipeline.emitted =>
              /\ Len(after) = Len(AfterStageOrder)
              /\ pipeline.sources[f] = Transformed(after[3].elem, after[3].received)
              /\ after[1].received \in {<<"typescript">>, <<"flattenImports", "typescript">>}
         /\ Len(before) <= 1
         /\ \A i \in 1..Len(before) :
              /\ before[i].elem = "flattenImports"
              /\ before[i].received = <<>>
         /\ (before # <<>> /\ after = <<>> /\ pipeline.running # f) =>
              pipeline.sources[f] \in {<<"flattenImports">>, <<"flattenImports", "typescript">>}

StagesInOrderWitness ==
  /\ pipeline # <<>>
  /\ \E f \in Files :
       /\ f \in pipeline.emitted
       /\ pipeline.sources[f] = <<"flattenImports", "typescript", "hoistFunctions",
                                  "boxMutableSharedVariables", "closureTransform">>

(***************************************************************************)
(* expandBuiltins(roots).  The heap holds a constructor and its prototype, *)
(* which refer to each other, the object both inherit from, the prototype  *)
(* of the numbers, and an object that only the properties caller and       *)
(* arguments and a getter lead to, unless the generated property p of the  *)
(* base object does.  An action is one round of the loop over the work     *)
(* list, or the return.                                                    *)
(***************************************************************************)
MaxRoots == 2           \* records of the list expandBuiltins is given

BaseId == ObjectPrototypeId
ConstructorId == BaseId + 1
ConstructorPrototypeId == ConstructorId + 1
NumberPrototypeId == ConstructorPrototypeId + 1
HiddenId == NumberPrototypeId + 1

BuiltinHeap(p) ==
  << ObjectCell(Null, <<PlainProp("p", p)>>),
     [FunctionCell(SrcCtor, "none", <<>>,
                   <<DataProp("length", Num(0), TRUE, FALSE, FALSE),
                     DataProp("caller", Ref(HiddenId), FALSE, FALSE, FALSE),
                     DataProp("arguments", Ref(HiddenId), FALSE, FALSE, FALSE),
                     DataProp("prototype", Ref(ConstructorPrototypeId), FALSE, TRUE, FALSE)>>)
        EXCEPT !.proto = Ref(BaseId)],
     ObjectCell(Ref(BaseId),
                <<DataProp("constructor", Ref(ConstructorId), TRUE, TRUE, FALSE),
                  AccessorProp("size", Ref(HiddenId), Undef, TRUE, FALSE)>>),
     ObjectCell(Ref(BaseId), <<>>),
     ObjectCell(Null, <<>>) >>

GeneratedValues == {Num(0), Num(1), Ref(BaseId), Ref(ConstructorId), Ref(ConstructorPrototypeId), Ref(HiddenId)}
RootValues == {Ref(BaseId), Ref(ConstructorId), Ref(ConstructorPrototypeId), Num(1), Null}
RootNames == <<"a", "b", "c">>
RootLists ==
  UNION {{[i \in 1..n |-> BuiltinRecord(RootNames[i], values[i])] : values \in [1..n -> RootValues]}
         : n \in 0..MaxRoots}

\* Object.getPrototypeOf(value) and value.prototype, for a value that is
\* neither null nor undefined.
getPrototypeOf(h, value) ==
  IF IsRef(value) THEN h[value.ref].proto
  ELSE IF value.ty = "number" THEN Ref(NumberPrototypeId) ELSE Null
getPrototypeProperty(h, value) ==
  LET found == FindProperty(h, IF IsRef(value) THEN value ELSE getPrototypeOf(h, value),
                            "prototype", TRUE)
  IN IF found.found /\ found.desc.isData THEN found.desc.value ELSE Undef

\* addToWorklist(baseName, propertyName, builtin): the work list after it.
addToWorklistFront(worklist, baseName, propertyName, builtin) ==
  IF IsRef(builtin)
  THEN <<BuiltinRecord(baseName \o "." \o propertyName, builtin)>> \o worklist
  ELSE worklist
addToWorklist(worklist, baseName, propertyName, builtin) ==
  IF IsRef(builtin)
  THEN Append(worklist, BuiltinRecord(baseName \o "." \o propertyName, builtin))
  ELSE worklist

\* The loop over Object.getOwnPropertyNames(record.builtin): the work list after it.
RECURSIVE addOwnProperties(_, _, _)
addOwnProperties(worklist, baseName, props) ==
  IF props = <<>> THEN worklist
  ELSE LET desc == Head(props)
       IN IF desc.key \in {"callee", "caller", "arguments"}
          THEN addOwnProperties(worklist, baseName, Tail(props))
          ELSE IF Truthy(desc.value)
          THEN addOwnProperties(addToWorklist(worklist, baseName, desc.key, desc.value),
                                baseName, Tail(props))
          ELSE addOwnProperties(worklist, baseName, Tail(props))

OwnDescriptors(h, value) == IF IsRef(value) THEN h[value.ref].props ELSE <<>>

ExpandInit ==
  /\ input = Undef /\ root = Undef /\ reg = DefaultRegistries
  /\ viaJSON = FALSE /\ pc = "ready" /\ round = 0 /\ indexMap = <<>>
  /\ contentArray = <<>> /\ rootIndex = -1 /\ stack = <<>> /\ results = <<>>
  /\ error = "" /\ increments = [before |-> 0, original |-> 0, decoded |-> 0]
  /\ called = <<>> /\ nested = NoNested
  /\ NoPass
  /\ boxing = <<>> /\ pipeline = <<>>
  /\ \E p \in GeneratedValues, roots \in RootLists :
       /\ heap = BuiltinHeap(p)
       /\ expanded = [roots |-> roots, worklist |-> roots, results |-> <<>>, pc |-> "running"]

\* One round of the while loop.  Object.getOwnPropertyNames throws for null
\* and undefined, after the record was pushed onto the results.
ExpandRecord ==
  /\ expanded.pc = "running"
  /\ expanded.worklist # <<>>
  /\ LET record == Head(expanded.worklist)
         worklist == Tail(expanded.worklist)
     IN IF getNameOfBuiltin(record.builtin, expanded.results) # NoName
        THEN expanded' = [expanded EXCEPT !.worklist = worklist]
        ELSE IF record.builtin.ty \in {"null", "undefined"}
        THEN expanded' = [expanded EXCEPT !.worklist = worklist,
                                          !.results = Append(@, record),
                                          !.pc = "threw"]
        ELSE expanded' =
               [expanded EXCEPT
                  !.results = Append(@, record),
                  !.worklist =
                     addToWorklist(
                       addToWorklist(
                         addOwnProperties(worklist, record.name, OwnDescriptors(heap, record.builtin)),
                         record.name, "__proto__", getPrototypeOf(heap, record.builtin)),
                       record.name, "prototype", getPrototypeProperty(heap, record.builtin))]
  /\ UNCHANGED <<heap, input, root, reg, viaJSON, pc, round, indexMap, contentArray,
                 rootIndex, stack, results, error, increments, called, nested>>
  /\ UNCHANGED <<passVars, boxing, pipeline>>

\* return results
ExpandReturn ==
  /\ expanded.pc = "running"
  /\ expanded.worklist = <<>>
  /\ expanded' = [expanded EXCEPT !.pc = "returned"]
  /\ UNCHANGED <<graphVars, passVars, boxing, pipeline>>

ExpandNext ==
  \/ ExpandRecord
  \/ ExpandReturn

\* The loop runs until it returns or throws: nothing else can stop it.
ExpandSpec == ExpandInit /\ [][ExpandNext]_vars /\ WF_vars(ExpandNext)

\* C30: expandBuiltins comes to an end whatever the roots and the cycles of
\* the heap; no object is in its result twice; when it returns, the objects
\* in the result are those that can be reached from the roots by own data
\* properties other than caller, callee and arguments, by the prototype
\* chain and by the property prototype, and each has the name of the
\* shortest way to it, the first of them in the order of the roots and of
\* the properties.
Steps(h, value) ==
  LET props == OwnDescriptors(h, value)
      own == SelectSeq(props, LAMBDA desc :
                 desc.isData /\ IsRef(desc.value) /\ desc.key \notin {"callee", "caller", "arguments"})
      proto == getPrototypeOf(h, value)
      prototype == getPrototypeProperty(h, value)
  IN [i \in 1..Len(own) |-> [key |-> own[i].key, to |-> own[i].value]]
     \o (IF IsRef(proto) THEN <<[key |-> "__proto__", to |-> proto]>> ELSE <<>>)
     \o (IF IsRef(prototype) THEN <<[key |-> "prototype", to |-> prototype]>> ELSE <<>>)

\* The ways of n steps from the roots: where each leads, its name, and the
\* positions of its root and of its steps.
RECURSIVE Ways(_, _, _)
Ways(h, roots, n) ==
  IF n = 0
  THEN {[to |-> roots[i].builtin, name |-> roots[i].name, rank |-> <<i>>] : i \in 1..Len(roots)}
  ELSE UNION {{[to |-> Steps(h, way.to)[k].to,
                name |-> way.name \o "." \o Steps(h, way.to)[k].key,
                rank |-> Append(way.rank, k)] : k \in 1..Len(Steps(h, way.to))}
              : way \in Ways(h, roots, n - 1)}

RECURSIVE Before(_, _)
Before(a, b) ==
  a # <<>> /\ (Head(a) < Head(b) \/ (Head(a) = Head(b) /\ Before(Tail(a), Tail(b))))

Objects(h) == {Ref(i) : i \in 1..Len(h)}
WaysTo(h, roots, n, object) == {way \in Ways(h, roots, n) : way.to = object}
Distance(h, roots, object) ==
  LET lengths == {n \in 0..Len(h) : WaysTo(h, roots, n, object) # {}}
  IN IF lengths = {} THEN -1 ELSE CHOOSE n \in lengths : \A m \in lengths : n <= m
FirstWay(h, roots, object) ==
  LET shortest == WaysTo(h, roots, Distance(h, roots, object), object)
  IN CHOOSE way \in shortest : \A other \in shortest : other = way \/ Before(way.rank, other.rank)

NoObjectTwice ==
  expanded # <<>> =>
    \A i, j \in 1..Len(expanded.results) :
      (i < j /\ IsRef(expanded.results[i].builtin)) =>
        expanded.results[i].builtin # expanded.results[j].builtin

ReachableUnderFirstName ==
  (expanded # <<>> /\ expanded.pc = "returned") =>
    \A object \in Objects(heap) :
      LET found == {i \in 1..Len(expanded.results) : expanded.results[i].builtin = object}
      IN IF Distance(heap, expanded.roots, object) = -1 THEN found = {}
         ELSE /\ found # {}
              /\ \A i \in found :
                   expanded.results[i].name = FirstWay(heap, expanded.roots, object).name

ExpandsEachOnce ==
  /\ <>(expanded # <<>> /\ expanded.pc # "running")
  /\ []NoObjectTwice
  /\ []ReachableUnderFirstName

ExpandsEachOnceWitness ==
  /\ expanded # <<>>
  /\ expanded.pc = "returned"
  /\ heap[BaseId].props[1].value = Ref(ConstructorPrototypeId)
  /\ expanded.roots = <<BuiltinRecord("a", Num(1))>>
  /\ \E i, j \in 1..Len(expanded.results) :
       /\ expanded.results[i] = BuiltinRecord("a.__proto__.__proto__.p", Ref(ConstructorPrototypeId))
       /\ expanded.results[j] = BuiltinRecord("a.__proto__.__proto__.p.constructor", Ref(ConstructorId))
  /\ \A i \in 1..Len(expanded.results) : expanded.results[i].builtin # Ref(HiddenId)
====
